---- MODULE Spec2Model ----
(***************************************************************************)
(* A model of the Smart SEO Assistant: the FastAPI backend (backend/main.py *)
(* with backend/auth.py and backend/database.py) and the SEO pipeline       *)
(* object it drives (pipeline/seo_pipeline.py).                             *)
(*                                                                         *)
(* Eleven specifications share the module:                                  *)
(*   SpecAuth  register / login / get_current_user over the users table    *)
(*   Spec      every route handler and the background task, few requests  *)
(*   SpecKeyword  /seo/analyze, /seo/brief, /seo/article over all keywords *)
(*   SpecLists    /seo/bulk and /seo/calendar over all keyword lists       *)
(*   SpecPipe  the pipeline object on its own: retrieve_context, the cache *)
(*   SpecBulk  the pipeline object on its own: bulk_process_keywords       *)
(*   SpecRetry utils.retry_with_backoff and fetch_wikipedia_data           *)
(*   SpecCalendar  the pipeline object on its own: plan_content_calendar   *)
(*   SpecAddItem   entity.ContentCalendar built by add_item calls          *)
(*   SpecStorage   backend/storage.py: save, load and delete content       *)
(*   SpecMeta      ContentGenerator.generate_meta_description              *)
(* Each one moves its own variables and leaves the others at their initial *)
(* values.                                                                 *)
(***************************************************************************)
EXTENDS Integers, Sequences, FiniteSets, TLC

VARIABLES
    now,                    \* backend wall clock, in minutes
    users,                  \* rows of the users table, in insertion order
    issued,                 \* the token POST /auth/login handed out last
    registered,             \* history: registrations that returned 200
    authOut,                \* outcome of the last auth-side operation
    req,                    \* the last HTTP request a route handler served
    resp,                   \* its response
    calls,                  \* pipeline methods invoked while serving it
    pending,                \* background tasks added and not yet run
    background_tasks_store, \* main.py's global dict task_id -> record
    nextTask,               \* number of task ids drawn so far (uuid4 is fresh)
    storeLog,               \* history: the writes to the store, in order
    cache_enabled,          \* PipelineConfig.cache_enabled
    context_cache,          \* SEOAssistantPipeline.context_cache
    pipeOut,                \* outcome of the last pipeline method call
    fetchLog,               \* per (keyword, goal): time of last retriever fetch
    compOut,                \* outcome of the last call of a component function
    files,                  \* the JSON files under StorageManager.storage_dir
    nextContent,            \* number of content ids drawn so far (uuid4)
    deleting,               \* delete_content calls between check and removal
    storageOut              \* outcome of the last finished storage call

vars == <<now, users, issued, registered, authOut, req, resp, calls, pending,
          background_tasks_store, nextTask, storeLog, cache_enabled,
          context_cache, pipeOut, fetchLog, compOut, files, nextContent,
          deleting, storageOut>>

authVars == <<now, users, issued, registered, authOut>>
apiVars  == <<req, resp, calls, pending, background_tasks_store, nextTask,
              storeLog>>
pipeVars == <<cache_enabled, context_cache, pipeOut, fetchLog>>
compVars == <<compOut>>
storageVars == <<files, nextContent, deleting, storageOut>>

----------------------------------------------------------------------------
(* Bounds of the model. *)

MaxTicks == 2       \* how often a clock may advance
MaxUsers == 2       \* rows the users table may hold
MaxTasks == 1       \* background tasks a run may create
MaxRetries == 4     \* largest max_retries a wrapped function is given
MaxBulkLen == 2     \* keywords in one direct bulk_process_keywords call
MaxCalendarItems == 3   \* keywords of one plan, items added to one calendar
MaxContent == 2     \* items the storage manager may save
MaxDeleting == 1    \* delete_content calls in flight at once

----------------------------------------------------------------------------
(* Program constants. *)

ACCESS_TOKEN_EXPIRE_MINUTES == 30
MIN_PASSWORD_LENGTH == 8
MIN_KEYWORD_LENGTH == 2
MAX_KEYWORD_LENGTH == 200
MAX_BULK_KEYWORDS == 50
MAX_CALENDAR_KEYWORDS == 100
CONTEXT_CACHE_TTL == 3600
MAX_CACHE_ENTRIES == 100
WIKIPEDIA_MAX_RETRIES == 3
DEFAULT_BACKOFF_FACTOR == 1
GENERATE_MAX_RETRIES == 3
TITLE_OPTIMAL_LENGTH == 60
META_DESCRIPTION_MAX_LENGTH == 155
SECRET_KEY == "dev-insecure-change-me"
ALGORITHM == "HS256"

\* The clocks advance in steps of half the period a claim is about, so that
\* "before", "exactly at" and "after" the period are all reached.
AuthStep == ACCESS_TOKEN_EXPIRE_MINUTES \div 2
MaxNow == MaxTicks * AuthStep
CacheStep == (CONTEXT_CACHE_TTL \div 60) \div 2
MaxPipeNow == MaxTicks * CacheStep

\* time.time(), in seconds, when the wall clock shows minute t.
Seconds(t) == t * 60

----------------------------------------------------------------------------
(* Python strings are sequences of one-character strings. *)

Rep(c, n) == [i \in 1..n |-> c]

IsSpace(c) == c \in {" ", "\t", "\n"}

RECURSIVE FirstKept(_, _)
FirstKept(s, i) ==
    IF i > Len(s) THEN i
    ELSE IF IsSpace(s[i]) THEN FirstKept(s, i + 1) ELSE i

RECURSIVE LastKept(_, _)
LastKept(s, i) ==
    IF i < 1 THEN i
    ELSE IF IsSpace(s[i]) THEN LastKept(s, i - 1) ELSE i

\* str.strip(): drop leading and trailing whitespace.
Strip(s) == SubSeq(s, FirstKept(s, 1), LastKept(s, Len(s)))

UpperLetters == <<"A", "B", "C", "D", "E", "F", "G", "H", "I", "J", "K", "L",
                  "M", "N", "O", "P", "Q", "R", "S", "T", "U", "V", "W", "X",
                  "Y", "Z">>
LowerLetters == <<"a", "b", "c", "d", "e", "f", "g", "h", "i", "j", "k", "l",
                  "m", "n", "o", "p", "q", "r", "s", "t", "u", "v", "w", "x",
                  "y", "z">>
IsUpper(c) == \E i \in 1..Len(UpperLetters) : UpperLetters[i] = c
IsLower(c) == \E i \in 1..Len(LowerLetters) : LowerLetters[i] = c

LowerChar(c) ==
    IF IsUpper(c)
    THEN LowerLetters[CHOOSE i \in 1..Len(UpperLetters) : UpperLetters[i] = c]
    ELSE c
UpperChar(c) ==
    IF IsLower(c)
    THEN UpperLetters[CHOOSE i \in 1..Len(LowerLetters) : LowerLetters[i] = c]
    ELSE c

\* str.lower()
Lower(s) == [i \in 1..Len(s) |-> LowerChar(s[i])]

\* str.title(): a letter is upper-cased after a non-letter, lower-cased
\* after a letter.
TitleCase(s) ==
    [i \in 1..Len(s) |->
        IF i = 1 \/ ~(IsUpper(s[i - 1]) \/ IsLower(s[i - 1]))
        THEN UpperChar(s[i]) ELSE LowerChar(s[i])]

\* s.replace('"', '').replace("'", "")
RemoveQuotes(s) == SelectSeq(s, LAMBDA c : c \notin {"\"", "'"})

\* s.rsplit(' ', 1)[0]: what precedes the last space, or all of s.
RSplitHead(s) ==
    LET spaces == {i \in 1..Len(s) : s[i] = " "}
    IN  IF spaces = {} THEN s
        ELSE SubSeq(s, 1, (CHOOSE i \in spaces : \A j \in spaces : j <= i) - 1)

DigitChar(d) == <<"0", "1", "2", "3", "4", "5", "6", "7", "8", "9">>[d + 1]

RECURSIVE NatToStr(_)
NatToStr(n) ==
    IF n < 10 THEN <<DigitChar(n)>>
    ELSE Append(NatToStr(n \div 10), DigitChar(n % 10))

----------------------------------------------------------------------------
(* JSON values of a request body, as Python sees them.  Every value has    *)
(* the same fields so that any two compare.                                *)

PyStr(s)   == [t |-> "str",  s |-> s,    n |-> 0]
PyInt(n)   == [t |-> "int",  s |-> <<>>, n |-> n]
PyNone     == [t |-> "none", s |-> <<>>, n |-> 0]
PyMissing  == [t |-> "missing", s |-> <<>>, n |-> 0]  \* key absent from the dict
PyList(l)  == [t |-> "list", l |-> l]

\* dict.get(key, ""): the default only replaces an absent key.
DictGet(v, default) == IF v.t = "missing" THEN default ELSE v

\* bool(v)
Truthy(v) ==
    CASE v.t = "str"  -> v.s # <<>>
      [] v.t = "int"  -> v.n # 0
      [] v.t = "list" -> v.l # <<>>
      [] OTHER        -> FALSE

IsStr(v) == v.t = "str"
IsList(v) == v.t = "list"

\* str(v)
ToStr(v) ==
    CASE v.t = "str"  -> v.s
      [] v.t = "int"  -> NatToStr(v.n)
      [] OTHER        -> <<"N", "o", "n", "e">>

----------------------------------------------------------------------------
(* backend/auth.py: passwords and JSON Web Tokens.                         *)

\* pwd_context.hash: a salted bcrypt digest.  The digest is opaque; all the
\* code does with it is store it and hand it back to verify_password.
hash_password(password, salt) ==
    [scheme |-> "bcrypt", salt |-> salt, digest |-> <<salt, password>>]

verify_password_flipped(plain_password, hashed_password) ==
    hashed_password.digest # <<hashed_password.salt, plain_password>>

\* pwd_context.verify: re-hash the candidate with the stored salt.
verify_password(plain_password, hashed_password) ==
    hashed_password.digest = <<hashed_password.salt, plain_password>>

\* A token as jwt.decode sees it: whether it parses as header.payload.signature,
\* the header's alg, the key that signed it, and the payload's claims.
Token(wf, alg, key, hasSub, sub, hasExp, exp, email) ==
    [wf |-> wf, alg |-> alg, key |-> key, hasSub |-> hasSub, sub |-> sub,
     hasExp |-> hasExp, exp |-> exp, email |-> email]

create_access_token_no_expiry(data, t) ==
    Token(TRUE, ALGORITHM, SECRET_KEY, TRUE, data.sub, TRUE, t, data.email)

\* AuthManager.create_access_token(data) at time t, default expires_delta.
create_access_token(data, t) ==
    Token(TRUE, ALGORITHM, SECRET_KEY, TRUE, data.sub, TRUE,
          t + ACCESS_TOKEN_EXPIRE_MINUTES, data.email)

jwt_decode_skips_signature(token, t) ==
    /\ token.wf
    /\ (token.hasExp => t < token.exp)

\* jwt.decode(token, SECRET_KEY, algorithms=[ALGORITHM]) at time t: TRUE when
\* it returns the payload, FALSE when it raises a PyJWTError (DecodeError,
\* InvalidAlgorithmError, InvalidSignatureError, ExpiredSignatureError).
jwt_decode_ok(token, t) ==
    /\ token.wf
    /\ token.alg = ALGORITHM
    /\ token.key = SECRET_KEY
    /\ (token.hasExp => t < token.exp)

get_current_user_ignores_exp(token, t) ==
    IF ~(token.wf /\ token.alg = ALGORITHM /\ token.key = SECRET_KEY)
    THEN [status |-> 401, id |-> 0, email |-> "", is_active |-> FALSE]
    ELSE IF ~token.hasSub
    THEN [status |-> 401, id |-> 0, email |-> "", is_active |-> FALSE]
    ELSE [status |-> 200, id |-> token.sub, email |-> token.email,
          is_active |-> TRUE]

\* get_current_user: status 200 with the user record, or the 401 it raises.
get_current_user(token, t) ==
    IF ~jwt_decode_ok(token, t)
    THEN [status |-> 401, id |-> 0, email |-> "", is_active |-> FALSE]
    ELSE IF ~token.hasSub
    THEN [status |-> 401, id |-> 0, email |-> "", is_active |-> FALSE]
    ELSE [status |-> 200, id |-> token.sub, email |-> token.email,
          is_active |-> TRUE]

\* get_current_active_user on top of it.
get_current_active_user(token, t) ==
    LET u == get_current_user(token, t)
    IN  IF u.status # 200 THEN u
        ELSE IF ~u.is_active THEN [u EXCEPT !.status = 400]
        ELSE u

NoCredentials == Token(FALSE, "absent", "absent", FALSE, 0, FALSE, 0, "")

\* What the route's dependency chain yields for a request's Authorization
\* header: HTTPBearer refuses a request without bearer credentials before
\* get_current_user runs.
Authorize(cred, t) ==
    IF cred = NoCredentials
    THEN [status |-> 403, id |-> 0, email |-> "", is_active |-> FALSE]
    ELSE get_current_active_user(cred, t)

----------------------------------------------------------------------------
(* backend/database.py: the users table.                                   *)

EmailTaken(rows, email) == \E i \in 1..Len(rows) : rows[i].email = email

create_user_no_unique(rows, email, full_name, password_hash) ==
    [ok |-> TRUE,
     rows |-> Append(rows, [id |-> Len(rows) + 1, email |-> email,
                            password_hash |-> password_hash,
                            full_name |-> full_name]),
     id |-> Len(rows) + 1]

\* create_user: INSERT INTO users; the UNIQUE constraint on email makes the
\* insert raise.  The id is a fresh uuid4, here the row number.
create_user(rows, email, full_name, password_hash) ==
    IF EmailTaken(rows, email)
    THEN [ok |-> FALSE, rows |-> rows, id |-> 0]
    ELSE [ok |-> TRUE,
          rows |-> Append(rows, [id |-> Len(rows) + 1, email |-> email,
                                 password_hash |-> password_hash,
                                 full_name |-> full_name]),
          id |-> Len(rows) + 1]

\* get_user_by_email: the row, or <<>> standing for None.
get_user_by_email(rows, email) ==
    IF EmailTaken(rows, email)
    THEN <<rows[CHOOSE i \in 1..Len(rows) : rows[i].email = email]>>
    ELSE <<>>

\* AuthManager.authenticate_user: <<user>> or <<>> standing for False.
authenticate_user(rows, email, password) ==
    LET found == get_user_by_email(rows, email)
    IN  IF found = <<>> THEN <<>>
        ELSE IF ~verify_password(password, found[1].password_hash) THEN <<>>
        ELSE found

----------------------------------------------------------------------------
(* The auth routes of backend/main.py.                                     *)

Emails    == {"", "a@x.io", "b@x.io"}
Passwords == {Rep("p", MIN_PASSWORD_LENGTH), Rep("q", MIN_PASSWORD_LENGTH),
              Rep("p", MIN_PASSWORD_LENGTH - 1)}
FullNames == {"", "Ann"}
Salts     == {"s1"}

\* Tokens a client can present without having logged in.
ForgedTokens ==
    { Token(FALSE, ALGORITHM, SECRET_KEY, TRUE, 1, TRUE, 2 * MaxNow, "a@x.io"),
      Token(TRUE, ALGORITHM, "attacker-key", TRUE, 1, TRUE, 2 * MaxNow, "a@x.io"),
      Token(TRUE, "none", "", TRUE, 1, TRUE, 2 * MaxNow, "a@x.io"),
      Token(TRUE, ALGORITHM, SECRET_KEY, FALSE, 0, TRUE, 2 * MaxNow, "a@x.io"),
      Token(TRUE, ALGORITHM, SECRET_KEY, TRUE, 1, FALSE, 0, "a@x.io"),
      Token(TRUE, ALGORITHM, SECRET_KEY, TRUE, 1, TRUE, AuthStep, "a@x.io") }

NoAuthOut ==
    [op |-> "none", status |-> 0, email |-> "", password |-> <<>>,
     token |-> NoCredentials, id |-> 0, at |-> 0]

InitAuth ==
    /\ now = 0
    /\ users = <<>>
    /\ issued = {}
    /\ registered = {}
    /\ authOut = NoAuthOut

\* Time passes.
Tick ==
    /\ now + AuthStep <= MaxNow
    /\ now' = now + AuthStep
    /\ UNCHANGED <<users, issued, registered, authOut>>
    /\ UNCHANGED apiVars
    /\ UNCHANGED pipeVars
    /\ UNCHANGED compVars
    /\ UNCHANGED storageVars

\* POST /auth/register
register_user(email, password, full_name, salt) ==
    LET created == create_user(users, email, full_name,
                               hash_password(password, salt))
        status ==
            IF Len(password) < MIN_PASSWORD_LENGTH THEN 422
            ELSE IF email = "" \/ password = <<>> \/ full_name = "" THEN 400
            ELSE IF ~created.ok THEN 400
            ELSE 200
    IN  /\ status = 200 => Len(users) < MaxUsers
        /\ users' = IF status = 200 THEN created.rows ELSE users
        /\ registered' =
              IF status = 200
              THEN registered \cup {[email |-> email, password |-> password,
                                     id |-> created.id]}
              ELSE registered
        /\ authOut' = [op |-> "register", status |-> status, email |-> email,
                       password |-> password, token |-> NoCredentials,
                       id |-> IF status = 200 THEN created.id ELSE 0,
                       at |-> now]
        /\ UNCHANGED <<now, issued>>
        /\ UNCHANGED apiVars
        /\ UNCHANGED pipeVars
        /\ UNCHANGED compVars
        /\ UNCHANGED storageVars

\* POST /auth/login
login_user(email, password) ==
    LET user == authenticate_user(users, email, password)
        access_token ==
            create_access_token([sub |-> user[1].id, email |-> user[1].email],
                                now)
    IN  IF user = <<>>
        THEN /\ authOut' = [op |-> "login", status |-> 401, email |-> email,
                            password |-> password, token |-> NoCredentials,
                            id |-> 0, at |-> now]
             /\ UNCHANGED <<now, users, issued, registered>>
             /\ UNCHANGED apiVars
             /\ UNCHANGED pipeVars
             /\ UNCHANGED compVars
             /\ UNCHANGED storageVars
        ELSE /\ issued' = {[token |-> access_token, email |-> email,
                            at |-> now]}
             /\ authOut' = [op |-> "login", status |-> 200, email |-> email,
                            password |-> password, token |-> access_token,
                            id |-> user[1].id, at |-> now]
             /\ UNCHANGED <<now, users, registered>>
             /\ UNCHANGED apiVars
             /\ UNCHANGED pipeVars
             /\ UNCHANGED compVars
             /\ UNCHANGED storageVars

\* A request presents a bearer token to a route that depends on
\* get_current_user.
present_token(token) ==
    LET u == get_current_user(token, now)
    IN  /\ authOut' = [op |-> "auth", status |-> u.status, email |-> u.email,
                       password |-> <<>>, token |-> token, id |-> u.id,
                       at |-> now]
        /\ UNCHANGED <<now, users, issued, registered>>
        /\ UNCHANGED apiVars
        /\ UNCHANGED pipeVars
        /\ UNCHANGED compVars
        /\ UNCHANGED storageVars

----------------------------------------------------------------------------
(* pipeline/seo_pipeline.py: the context cache.  The dict is kept as the   *)
(* sequence of its items in insertion order, which is the order Python     *)
(* iterates it in.                                                         *)

\* utils.generate_cache_key: md5 of "<keyword.lower()>_<user_goal.lower()>";
\* the digest is taken to be one-to-one on that string.
generate_cache_key(keyword, user_goal) ==
    Lower(keyword) \o <<"_">> \o Lower(user_goal)

HasKey(cache, key) == \E i \in 1..Len(cache) : cache[i].key = key
KeyIndex(cache, key) == CHOOSE i \in 1..Len(cache) : cache[i].key = key
DelIndex(cache, i) == SubSeq(cache, 1, i - 1) \o SubSeq(cache, i + 1, Len(cache))

\* `not self.context_cache`: the cache is None (disabled) or an empty dict.
NotCache(enabled, cache) == ~enabled \/ cache = <<>>

NoContext == [keyword |-> <<>>, user_goal |-> <<>>, retrieval_timestamp |-> -1]

\* _get_cached_context at time t (seconds): whether it returns a context,
\* which, and the cache it leaves.
get_cached_context(enabled, cache, keyword, user_goal, t) ==
    LET cache_key == generate_cache_key(keyword, user_goal)
    IN  IF NotCache(enabled, cache) \/ ~HasKey(cache, cache_key)
        THEN [hit |-> FALSE, context |-> NoContext, cache |-> cache]
        ELSE LET i == KeyIndex(cache, cache_key)
             IN  IF t - cache[i].timestamp < CONTEXT_CACHE_TTL
                 THEN [hit |-> TRUE, context |-> cache[i].context,
                       cache |-> cache]
                 ELSE [hit |-> FALSE, context |-> NoContext,
                       cache |-> DelIndex(cache, i)]

\* min(self.context_cache.keys(), key=timestamp): the first item, in
\* iteration order, among those with the least timestamp.
OldestIndex(cache) ==
    CHOOSE i \in 1..Len(cache) :
        /\ \A j \in 1..Len(cache) : cache[i].timestamp <= cache[j].timestamp
        /\ \A j \in 1..(i - 1) : cache[j].timestamp > cache[i].timestamp

\* _cache_context at time t: the cache it leaves.
cache_context(enabled, cache, context, user_goal, t) ==
    IF NotCache(enabled, cache) THEN cache
    ELSE LET cache_key == generate_cache_key(context.keyword, user_goal)
             item == [key |-> cache_key, context |-> context, timestamp |-> t]
             stored == IF HasKey(cache, cache_key)
                       THEN [cache EXCEPT ![KeyIndex(cache, cache_key)] = item]
                       ELSE Append(cache, item)
         IN  IF Len(stored) > MAX_CACHE_ENTRIES
             THEN DelIndex(stored, OldestIndex(stored))
             ELSE stored

\* retrieve_context at time t.  `raises` is the data retriever's behaviour
\* on this call, should it be called: get_comprehensive_context returns a
\* context or raises.  fetched: the retriever was called.
retrieve_context(enabled, cache, keyword, user_goal, t, raises) ==
    LET got == get_cached_context(enabled, cache, keyword, user_goal, t)
        context == [keyword |-> keyword, user_goal |-> user_goal,
                    retrieval_timestamp |-> t]
    IN  IF got.hit
        THEN [raised |-> FALSE, fetched |-> FALSE, context |-> got.context,
              cache |-> got.cache]
        ELSE IF raises
        THEN [raised |-> TRUE, fetched |-> TRUE, context |-> NoContext,
              cache |-> got.cache]
        ELSE [raised |-> FALSE, fetched |-> TRUE, context |-> context,
              cache |-> cache_context(enabled, got.cache, context, user_goal, t)]

----------------------------------------------------------------------------
(* pipeline/seo_pipeline.py: the main pipeline methods.  What the data     *)
(* retriever and the content generator do on one keyword is an input:      *)
(* "ok", "retriever" (get_comprehensive_context raises) or "generator"     *)
(* (ContentGenerator.generate_content_brief raises).                       *)

Outcomes == {"ok", "retriever", "generator"}

\* entity.ContentBrief: the dataclass's fields.
ContentBrief(keyword) ==
    [keyword |-> keyword, title |-> <<"T">> \o keyword,
     meta_description |-> <<"M">>, outline |-> <<<<"H", "2">>>>,
     word_count_target |-> 1500, internal_links |-> <<>>,
     cta_suggestions |-> <<>>, optimization_tips |-> <<>>,
     content_type |-> "blog_post", created_at |-> 0]

NoBrief == [keyword |-> <<>>]

\* SEOAssistantPipeline.generate_content_brief: retrieval, context design,
\* execution; any exception is logged and re-raised.
generate_content_brief(enabled, cache, keyword, user_goal, t, outcome) ==
    LET got == retrieve_context(enabled, cache, keyword, user_goal, t,
                                outcome = "retriever")
    IN  IF got.raised
        THEN [raised |-> TRUE, brief |-> NoBrief, cache |-> got.cache]
        ELSE IF outcome = "generator"
        THEN [raised |-> TRUE, brief |-> NoBrief, cache |-> got.cache]
        ELSE [raised |-> FALSE, brief |-> ContentBrief(keyword),
              cache |-> got.cache]

\* One pass of the loop body of bulk_process_keywords.
BulkItem(keyword, made) ==
    IF made.raised
    THEN [keyword |-> keyword, status |-> "failed", error |-> "exception"]
    ELSE [keyword |-> keyword, status |-> "success",
          title |-> made.brief.title,
          word_count_target |-> made.brief.word_count_target,
          content_brief |-> made.brief]

BulkStepSkipsFailed(enabled, st, keywords, user_goal, t, outcomes, i) ==
    LET made == generate_content_brief(enabled, st.cache, keywords[i],
                                       user_goal, t, outcomes[i])
    IN  [results |-> IF made.raised THEN st.results
                     ELSE Append(st.results, BulkItem(keywords[i], made)),
         processed |-> Append(st.processed, keywords[i]),
         cache |-> made.cache]

\* The loop body for keyword i, on the loop's state so far.
BulkStep(enabled, st, keywords, user_goal, t, outcomes, i) ==
    LET made == generate_content_brief(enabled, st.cache, keywords[i],
                                       user_goal, t, outcomes[i])
    IN  [results |-> Append(st.results, BulkItem(keywords[i], made)),
         processed |-> Append(st.processed, keywords[i]),
         cache |-> made.cache]

\* A loop without the try/except: the first exception ends it.
RECURSIVE BulkLoopStopsAtFailure(_, _, _, _, _, _, _, _)
BulkLoopStopsAtFailure(enabled, st, keywords, user_goal, t, outcomes, lo, hi) ==
    IF Len(st.results) >= 0 /\ lo > hi THEN st
    ELSE LET next == BulkStep(enabled, st, keywords, user_goal, t, outcomes, lo)
         IN  IF outcomes[lo] # "ok" THEN next
             ELSE BulkLoopStopsAtFailure(enabled, next, keywords, user_goal,
                                         t, outcomes, lo + 1, hi)

\* for i, keyword in enumerate(keywords, 1): the iterations lo..hi in order,
\* from loop state st.  The range is halved rather than peeled one keyword
\* at a time, which computes the same left-to-right fold; the first
\* conjunct of the test is always true and makes TLC evaluate st on entry.
RECURSIVE BulkLoop(_, _, _, _, _, _, _, _)
BulkLoop(enabled, st, keywords, user_goal, t, outcomes, lo, hi) ==
    IF Len(st.results) >= 0 /\ lo > hi THEN st
    ELSE IF lo = hi
    THEN BulkStep(enabled, st, keywords, user_goal, t, outcomes, lo)
    ELSE LET mid == (lo + hi) \div 2
             left == BulkLoop(enabled, st, keywords, user_goal, t, outcomes,
                              lo, mid)
         IN  BulkLoop(enabled, left, keywords, user_goal, t, outcomes,
                      mid + 1, hi)

\* SEOAssistantPipeline.bulk_process_keywords
bulk_process_keywords(enabled, cache, keywords, user_goal, t, outcomes) ==
    BulkLoop(enabled, [results |-> <<>>, processed |-> <<>>, cache |-> cache],
             keywords, user_goal, t, outcomes, 1, Len(keywords))

----------------------------------------------------------------------------
(* The pipeline object driven directly, as examples/ and cli.py do.        *)

PipeKeywords == {<<"a", "b">>, <<"A", "b">>}
PipeKeys     == {<<<<"a", "b">>, <<>>>>, <<<<"A", "b">>, <<>>>>,
                 <<<<"a", "b">>, <<"G">>>>}

SeqsUpTo(S, n) == UNION {[1..m -> S] : m \in 0..n}

NoPipeOut ==
    [op |-> "none", keyword |-> <<>>, user_goal |-> <<>>, at |-> 0,
     prevFetch |-> -1, fetched |-> FALSE, raised |-> FALSE,
     context |-> NoContext, keywords |-> <<>>, outcomes |-> <<>>,
     results |-> <<>>, processed |-> <<>>]

InitPipeWith(enabled) ==
    /\ cache_enabled = enabled
    /\ context_cache = <<>>
    /\ pipeOut = NoPipeOut
    /\ fetchLog = [k \in PipeKeys |-> -1]

\* Time passes between two pipeline calls.
PipeTick ==
    /\ now + CacheStep <= MaxPipeNow
    /\ now' = now + CacheStep
    /\ UNCHANGED <<users, issued, registered, authOut>>
    /\ UNCHANGED apiVars
    /\ UNCHANGED pipeVars
    /\ UNCHANGED compVars
    /\ UNCHANGED storageVars

\* When the retriever last fetched a context for a keyword and goal that
\* lower-case to the same pair, -1 when it never did.
LastFetch(log, keyword, user_goal) ==
    LET times == {log[k] : k \in {q \in DOMAIN log :
                                   /\ Lower(q[1]) = Lower(keyword)
                                   /\ Lower(q[2]) = Lower(user_goal)}}
    IN  CHOOSE x \in times : \A y \in times : y <= x

\* pipeline.retrieve_context(keyword, user_goal)
PipeRetrieve(keyword, user_goal, raises) ==
    LET r == retrieve_context(cache_enabled, context_cache, keyword,
                              user_goal, Seconds(now), raises)
    IN  /\ context_cache' = r.cache
        /\ pipeOut' = [NoPipeOut EXCEPT
                         !.op = "retrieve_context", !.keyword = keyword,
                         !.user_goal = user_goal, !.at = Seconds(now),
                         !.prevFetch = LastFetch(fetchLog, keyword, user_goal),
                         !.fetched = r.fetched, !.raised = r.raised,
                         !.context = r.context]
        /\ fetchLog' = IF r.fetched /\ ~r.raised
                       THEN [fetchLog EXCEPT ![<<keyword, user_goal>>] =
                                                Seconds(now)]
                       ELSE fetchLog
        /\ UNCHANGED cache_enabled
        /\ UNCHANGED authVars
        /\ UNCHANGED apiVars
        /\ UNCHANGED compVars
        /\ UNCHANGED storageVars

\* pipeline.bulk_process_keywords(keywords, user_goal)
PipeBulk(keywords, user_goal, outcomes) ==
    LET r == bulk_process_keywords(cache_enabled, context_cache, keywords,
                                   user_goal, Seconds(now), outcomes)
    IN  /\ context_cache' = r.cache
        /\ pipeOut' = [NoPipeOut EXCEPT
                         !.op = "bulk_process_keywords",
                         !.user_goal = user_goal, !.at = Seconds(now),
                         !.keywords = keywords, !.outcomes = outcomes,
                         !.results = r.results, !.processed = r.processed]
        /\ UNCHANGED <<cache_enabled, fetchLog>>
        /\ UNCHANGED authVars
        /\ UNCHANGED apiVars
        /\ UNCHANGED compVars
        /\ UNCHANGED storageVars

NextPipe ==
    \/ PipeTick
    \/ \E key \in PipeKeys, raises \in BOOLEAN :
          PipeRetrieve(key[1], key[2], raises)

NextBulk ==
    \/ PipeTick
    \/ \E ks \in SeqsUpTo(PipeKeywords, MaxBulkLen) :
          \E outcomes \in [1..Len(ks) -> Outcomes] :
             PipeBulk(ks, <<"G">>, outcomes)

IssuedTokens == {i.token : i \in issued}

NextAuth ==
    \/ Tick
    \/ \E email \in Emails, password \in Passwords, full_name \in FullNames,
          salt \in Salts :
          register_user(email, password, full_name, salt)
    \/ \E email \in Emails, password \in Passwords :
          login_user(email, password)
    \/ \E token \in IssuedTokens \cup ForgedTokens : present_token(token)

----------------------------------------------------------------------------
(* backend/main.py: the route handlers.  A handler's try body either       *)
(* returns or raises; what the surrounding except clause makes of it is    *)
(* part of the handler.                                                    *)

Returned(body) == [raised |-> FALSE, http |-> FALSE, status |-> 200,
                   detail |-> "", body |-> body]
\* raise HTTPException(status_code, detail)
RaisedHTTP(status, detail) == [raised |-> TRUE, http |-> TRUE,
                               status |-> status, detail |-> detail,
                               body |-> <<>>]
\* any other exception
RaisedError(detail) == [raised |-> TRUE, http |-> FALSE, status |-> 0,
                        detail |-> detail, body |-> <<>>]

Response(status, detail, body, scheduled) ==
    [status |-> status, detail |-> detail, body |-> body,
     scheduled |-> scheduled]

\* An exception that leaves the handler: FastAPI answers an HTTPException
\* with its status code.
Propagate(r) ==
    IF r.raised THEN Response(r.status, r.detail, <<>>, {})
    ELSE Response(200, "", r.body, {})

\* try: ... except Exception as e: raise HTTPException(500, f"...{e}").
\* HTTPException is an Exception, so one raised in the body is caught too;
\* the new detail embeds str(e).
CatchAll500(r) ==
    IF r.raised THEN Response(500, r.detail, <<>>, {})
    ELSE Propagate(r)

KeywordLengthOk(s) ==
    ~(Len(s) < MIN_KEYWORD_LENGTH \/ Len(s) > MAX_KEYWORD_LENGTH)

ValidateKeywordNoStrip(keyword) ==
    IF ~Truthy(keyword) \/ ~IsStr(keyword)
    THEN RaisedHTTP(400, "Keyword is required")
    ELSE IF ~KeywordLengthOk(keyword.s)
    THEN RaisedHTTP(400, "Keyword length must be between 2 and 200 characters")
    ELSE Returned(keyword.s)

\* The keyword check the three keyword routes share, on
\* request.get("keyword", ""): returns the stripped keyword or raises 400.
ValidateKeyword(keyword) ==
    IF ~Truthy(keyword) \/ ~IsStr(keyword)
    THEN RaisedHTTP(400, "Keyword is required")
    ELSE IF ~KeywordLengthOk(Strip(keyword.s))
    THEN RaisedHTTP(400, "Keyword length must be between 2 and 200 characters")
    ELSE Returned(Strip(keyword.s))

NonEmpty(k) == k # <<>>

\* [str(k).strip() for k in keywords if str(k).strip()]
Normalize(l) ==
    SelectSeq([i \in 1..Len(l) |-> Strip(ToStr(l[i]))], NonEmpty)

ValidateKeywordsNoCap(keywords, cap, capDetail) ==
    IF ~Truthy(keywords) \/ ~IsList(keywords)
    THEN RaisedHTTP(400, "Keywords list is required")
    ELSE LET normalized == Normalize(keywords.l)
         IN  IF \E i \in 1..Len(normalized) : ~KeywordLengthOk(normalized[i])
             THEN RaisedHTTP(400, "Each keyword must be 2-200 characters")
             ELSE Returned(normalized)

\* The keywords check of /seo/bulk and /seo/calendar, on
\* request.get("keywords", []): the normalized list or a 400.
ValidateKeywords(keywords, cap, capDetail) ==
    IF ~Truthy(keywords) \/ ~IsList(keywords)
    THEN RaisedHTTP(400, "Keywords list is required")
    ELSE LET normalized == Normalize(keywords.l)
         IN  IF \E i \in 1..Len(normalized) : ~KeywordLengthOk(normalized[i])
             THEN RaisedHTTP(400, "Each keyword must be 2-200 characters")
             ELSE IF Len(normalized) > cap
             THEN RaisedHTTP(400, capDetail)
             ELSE Returned(normalized)

\* getattr on a dataclass instance: a field it does not have raises
\* AttributeError.
HasAttr(obj, name) == name \in DOMAIN obj

Request(endpoint, cred, keyword, goal, keywords, timeframe_weeks, task_id) ==
    [endpoint |-> endpoint, cred |-> cred, keyword |-> keyword,
     goal |-> goal, keywords |-> keywords,
     timeframe_weeks |-> timeframe_weeks, task_id |-> task_id, at |-> now]

NoRequest ==
    [endpoint |-> "none", cred |-> NoCredentials, keyword |-> PyMissing,
     goal |-> <<>>, keywords |-> PyMissing, timeframe_weeks |-> 0,
     task_id |-> 0, at |-> 0]

EmptyDict == [k \in {} |-> 0]

InitApi ==
    /\ req = NoRequest
    /\ resp = Response(0, "", <<>>, {})
    /\ calls = <<>>
    /\ pending = {}
    /\ background_tasks_store = EmptyDict
    /\ nextTask = 0
    /\ storeLog = <<>>

\* A pipeline method invoked by a handler, and whether it raised.
Call(method, arg, raised) ==
    [method |-> method, arg |-> arg, raised |-> raised]

\* A request the dependency chain (HTTPBearer, get_current_user,
\* get_current_active_user) turns away: the handler body never runs.
Refuse(r, status) ==
    /\ req' = r
    /\ resp' = Response(status, "Not authenticated", <<>>, {})
    /\ calls' = <<>>
    /\ UNCHANGED <<pending, background_tasks_store, nextTask, storeLog>>
    /\ UNCHANGED authVars
    /\ UNCHANGED pipeVars
    /\ UNCHANGED compVars
    /\ UNCHANGED storageVars

\* A handler that answers without touching the task store.
Answer(r, response, invoked, cache) ==
    /\ req' = r
    /\ resp' = response
    /\ calls' = invoked
    /\ context_cache' = cache
    /\ UNCHANGED <<pending, background_tasks_store, nextTask, storeLog>>
    /\ UNCHANGED authVars
    /\ UNCHANGED <<cache_enabled, pipeOut, fetchLog>>
    /\ UNCHANGED compVars
    /\ UNCHANGED storageVars

\* POST /seo/analyze
analyze_keyword(cred, keyword, goal, raises) ==
    LET r == Request("/seo/analyze", cred, keyword, goal, PyMissing, 0, 0)
        user == Authorize(cred, now)
        checked == ValidateKeyword(DictGet(keyword, PyStr(<<>>)))
        got == retrieve_context(cache_enabled, context_cache, checked.body,
                                goal, Seconds(now), raises)
    IN  IF user.status # 200 THEN Refuse(r, user.status)
        ELSE IF checked.raised
        THEN Answer(r, CatchAll500(checked), <<>>, context_cache)
        ELSE Answer(r,
                    CatchAll500(IF got.raised THEN RaisedError("retrieval")
                                ELSE Returned([keyword |-> got.context.keyword])),
                    <<Call("retrieve_context", checked.body, got.raised)>>, got.cache)

\* POST /seo/brief
generate_content_brief_route(cred, keyword, goal, outcome) ==
    LET r == Request("/seo/brief", cred, keyword, goal, PyMissing, 0, 0)
        user == Authorize(cred, now)
        checked == ValidateKeyword(DictGet(keyword, PyStr(<<>>)))
        made == generate_content_brief(cache_enabled, context_cache,
                                       checked.body, goal, Seconds(now), outcome)
        brief_data ==
            IF made.raised THEN RaisedError("pipeline")
            ELSE IF ~HasAttr(made.brief, "call_to_action")
            THEN RaisedError("'ContentBrief' object has no attribute 'call_to_action'")
            ELSE Returned([title |-> made.brief.title,
                           meta_description |-> made.brief.meta_description,
                           content_type |-> made.brief.content_type,
                           word_count_target |-> made.brief.word_count_target,
                           outline |-> made.brief.outline,
                           call_to_action |-> made.brief.call_to_action])
    IN  IF user.status # 200 THEN Refuse(r, user.status)
        ELSE IF checked.raised
        THEN Answer(r, CatchAll500(checked), <<>>, context_cache)
        ELSE Answer(r, CatchAll500(brief_data),
                    <<Call("generate_content_brief", checked.body, made.raised)>>,
                    made.cache)

\* POST /seo/article: validates, draws a task id, adds the background task.
generate_full_article_route(cred, keyword, goal) ==
    LET r == Request("/seo/article", cred, keyword, goal, PyMissing, 0, 0)
        user == Authorize(cred, now)
        checked == ValidateKeyword(DictGet(keyword, PyStr(<<>>)))
        task_id == nextTask + 1
    IN  IF user.status # 200 THEN Refuse(r, user.status)
        ELSE IF checked.raised
        THEN Answer(r, Propagate(checked), <<>>, context_cache)
        ELSE /\ nextTask < MaxTasks
             /\ req' = r
             /\ resp' = Response(200, "",
                                 [task_id |-> task_id, status |-> "processing"],
                                 {task_id})
             /\ calls' = <<>>
             /\ pending' = pending \cup {[task_id |-> task_id,
                                         keyword |-> checked.body,
                                         goal |-> goal]}
             /\ nextTask' = task_id
             /\ UNCHANGED <<background_tasks_store, storeLog>>
             /\ UNCHANGED authVars
             /\ UNCHANGED pipeVars
             /\ UNCHANGED compVars
             /\ UNCHANGED storageVars

----------------------------------------------------------------------------
(* entity.ContentCalendar and SEOAssistantPipeline.plan_content_calendar.  *)
(* A keyword's priority score (computed from the retrieved context) is an  *)
(* input, as is whether its retrieval raises.                              *)

CalendarItem(keyword, priority_score, target_week) ==
    [keyword |-> keyword, title |-> <<"G">> \o keyword,
     content_type |-> "blog_post", priority_score |-> priority_score,
     estimated_difficulty |-> "Medium", target_week |-> target_week]

MaxOf(S) == CHOOSE x \in S : \A y \in S : y <= x

\* ContentCalendar.add_item on the schedule list.
add_item(schedule, item) ==
    LET found == {i \in 1..Len(schedule) : schedule[i].week = item.target_week}
        isNew == found = {}
        withWeek == IF isNew
                    THEN Append(schedule,
                                [week |-> item.target_week, items |-> <<>>,
                                 focus_keyword |-> <<>>, content_types |-> {}])
                    ELSE schedule
        w == IF isNew THEN Len(withWeek)
             ELSE CHOOSE i \in found : \A j \in found : i <= j
        items == Append(withWeek[w].items, item)
        scores == {items[i].priority_score : i \in 1..Len(items)}
        focus == IF withWeek[w].focus_keyword = <<>>
                    \/ item.priority_score > MaxOf(scores)
                 THEN item.keyword
                 ELSE withWeek[w].focus_keyword
    IN  [withWeek EXCEPT ![w] =
            [week |-> withWeek[w].week, items |-> items,
             focus_keyword |-> focus,
             content_types |-> withWeek[w].content_types
                                  \cup {item.content_type}]]

\* Where a stable sort by descending priority_score puts element i.
SortedPosition(items, i) ==
    Cardinality({j \in 1..Len(items) :
                    \/ items[j].priority_score > items[i].priority_score
                    \/ /\ items[j].priority_score = items[i].priority_score
                       /\ j <= i})

\* list.sort(key=priority_score, reverse=True): stable, highest first.  A
\* list already in that order is returned as it is, which is what the
\* permutation below evaluates to as well.
SortByPriority(items) ==
    LET n == Len(items)
        pos == [i \in 1..n |-> SortedPosition(items, i)]
        at  == [p \in 1..n |-> CHOOSE i \in 1..n : pos[i] = p]
    IN  IF \A i \in 1..(n - 1) :
              items[i].priority_score >= items[i + 1].priority_score
        THEN items
        ELSE [p \in 1..n |-> items[at[p]]]

\* The first loop, iterations lo..hi: one item per keyword whose retrieval
\* does not raise.
RECURSIVE AnalyzeKeywords(_, _, _, _, _, _, _, _)
AnalyzeKeywords(enabled, st, keywords, t, outcomes, priorities, lo, hi) ==
    IF Len(st.items) >= 0 /\ lo > hi THEN st
    ELSE IF lo = hi
    THEN LET got == retrieve_context(enabled, st.cache, keywords[lo], <<>>, t,
                                     outcomes[lo] = "retriever")
         IN  [items |-> IF got.raised THEN st.items
                        ELSE Append(st.items,
                                    CalendarItem(keywords[lo], priorities[lo], 1)),
              cache |-> got.cache]
    ELSE LET mid == (lo + hi) \div 2
             left == AnalyzeKeywords(enabled, st, keywords, t, outcomes,
                                     priorities, lo, mid)
         IN  AnalyzeKeywords(enabled, left, keywords, t, outcomes, priorities,
                             mid + 1, hi)

\* The second loop without the cap of the week at timeframe_weeks.
RECURSIVE AssignWeeksNoCap(_, _, _, _, _, _)
AssignWeeksNoCap(items, keywords_per_week, timeframe_weeks, schedule, lo, hi) ==
    IF Len(schedule) >= 0 /\ lo > hi THEN schedule
    ELSE IF lo = hi
    THEN LET week == ((lo - 1) \div keywords_per_week) + 1
         IN  add_item(schedule, [items[lo] EXCEPT !.target_week = week])
    ELSE LET mid == (lo + hi) \div 2
             left == AssignWeeksNoCap(items, keywords_per_week,
                                      timeframe_weeks, schedule, lo, mid)
         IN  AssignWeeksNoCap(items, keywords_per_week, timeframe_weeks, left,
                              mid + 1, hi)

\* The second loop, iterations lo..hi: assign weeks in priority order and
\* add each item to the calendar.
RECURSIVE AssignWeeks(_, _, _, _, _, _)
AssignWeeks(items, keywords_per_week, timeframe_weeks, schedule, lo, hi) ==
    IF Len(schedule) >= 0 /\ lo > hi THEN schedule
    ELSE IF lo = hi
    THEN LET week0 == ((lo - 1) \div keywords_per_week) + 1
             week == IF week0 > timeframe_weeks THEN timeframe_weeks ELSE week0
         IN  add_item(schedule, [items[lo] EXCEPT !.target_week = week])
    ELSE LET mid == (lo + hi) \div 2
             left == AssignWeeks(items, keywords_per_week, timeframe_weeks,
                                 schedule, lo, mid)
         IN  AssignWeeks(items, keywords_per_week, timeframe_weeks, left,
                         mid + 1, hi)

\* plan_content_calendar: the calendar, or the ZeroDivisionError of
\* len(keyword_items) // timeframe_weeks.
plan_content_calendar(enabled, cache, keywords, timeframe_weeks, t, outcomes, priorities) ==
    LET analysed == AnalyzeKeywords(enabled, [items |-> <<>>, cache |-> cache],
                                    keywords, t, outcomes, priorities, 1,
                                    Len(keywords))
        sorted == SortByPriority(analysed.items)
        per == Len(sorted) \div timeframe_weeks
        keywords_per_week == IF per > 1 THEN per ELSE 1
    IN  IF timeframe_weeks = 0
        THEN [raised |-> TRUE, cache |-> analysed.cache,
              calendar |-> [timeframe_weeks |-> 0]]
        ELSE [raised |-> FALSE, cache |-> analysed.cache,
              calendar |-> [timeframe_weeks |-> timeframe_weeks,
                            total_keywords |-> Len(keywords),
                            schedule |-> AssignWeeks(sorted, keywords_per_week,
                                                     timeframe_weeks, <<>>, 1,
                                                     Len(sorted)),
                            created_at |-> t]]

----------------------------------------------------------------------------
(* The list routes, the task routes and the background task.               *)

CountSuccess(results) ==
    Cardinality({i \in 1..Len(results) : results[i].status = "success"})

\* What the retriever and the generator do over a list of n keywords, drawn
\* from a few shapes rather than from all of Outcomes^n.
OutcomeShapes == {"all_ok", "all_fail", "first_fails", "last_fails"}
OutcomesOf(shape, n) ==
    [i \in 1..n |->
        CASE shape = "all_fail" -> "generator"
          [] shape = "first_fails" /\ i = 1 -> "retriever"
          [] shape = "last_fails" /\ i = n -> "generator"
          [] OTHER -> "ok"]

\* POST /seo/bulk
bulk_process_keywords_route(cred, keywords, goal, shape) ==
    LET r == Request("/seo/bulk", cred, PyMissing, goal, keywords, 0, 0)
        user == Authorize(cred, now)
        checked == ValidateKeywords(DictGet(keywords, PyList(<<>>)),
                                    MAX_BULK_KEYWORDS,
                                    "Maximum 50 keywords allowed")
        outcomes == OutcomesOf(shape, Len(checked.body))
        done == bulk_process_keywords(cache_enabled, context_cache,
                                      checked.body, goal, Seconds(now),
                                      outcomes)
        successful == CountSuccess(done.results)
        summary == [total_keywords |-> Len(checked.body),
                    successful |-> successful,
                    failed |-> Len(done.results) - successful]
    IN  IF user.status # 200 THEN Refuse(r, user.status)
        ELSE IF checked.raised
        THEN Answer(r, Propagate(checked), <<>>, context_cache)
        ELSE Answer(r,
                    CatchAll500(Returned([summary |-> summary,
                                          results |-> done.results])),
                    <<Call("bulk_process_keywords", checked.body, FALSE)>>,
                    done.cache)

\* POST /seo/calendar
create_content_calendar(cred, keywords, timeframe_weeks, shape) ==
    LET r == Request("/seo/calendar", cred, PyMissing, <<>>, keywords,
                     timeframe_weeks, 0)
        user == Authorize(cred, now)
        checked == ValidateKeywords(DictGet(keywords, PyList(<<>>)),
                                    MAX_CALENDAR_KEYWORDS,
                                    "Maximum 100 keywords allowed for calendar")
        planned == plan_content_calendar(cache_enabled, context_cache,
                                         checked.body, timeframe_weeks,
                                         Seconds(now),
                                         OutcomesOf(shape, Len(checked.body)),
                                         [i \in 1..Len(checked.body) |-> 0])
        calendar_data ==
            IF planned.raised THEN RaisedError("integer division or modulo by zero")
            ELSE IF ~HasAttr(planned.calendar, "items")
            THEN RaisedError("'ContentCalendar' object has no attribute 'items'")
            ELSE Returned([timeframe_weeks |-> planned.calendar.timeframe_weeks,
                           total_keywords |-> planned.calendar.total_keywords,
                           items |-> planned.calendar.items])
    IN  IF user.status # 200 THEN Refuse(r, user.status)
        ELSE IF checked.raised
        THEN Answer(r, Propagate(checked), <<>>, context_cache)
        ELSE Answer(r, CatchAll500(calendar_data),
                    <<Call("plan_content_calendar", checked.body, planned.raised)>>,
                    planned.cache)

\* GET /tasks/{task_id}: no dependency on get_current_active_user.
get_task_status(cred, task_id) ==
    LET r == Request("/tasks", cred, PyMissing, <<>>, PyMissing, 0, task_id)
    IN  Answer(r,
               IF task_id \in DOMAIN background_tasks_store
               THEN Response(200, "", background_tasks_store[task_id], {})
               ELSE Response(404, "Task not found", <<>>, {}),
               <<>>, context_cache)

\* GET /stats: no dependency on get_current_active_user.
get_pipeline_stats(cred) ==
    LET r == Request("/stats", cred, PyMissing, <<>>, PyMissing, 0, 0)
        stats == [cache_size |-> IF NotCache(cache_enabled, context_cache)
                                 THEN 0 ELSE Len(context_cache),
                  performance_tracked_keywords |-> 0]
    IN  Answer(r, Response(200, "", [pipeline_stats |-> stats], {}),
               <<Call("get_pipeline_stats", <<>>, FALSE)>>, context_cache)

StoreWrite(task_id, record) == [task_id |-> task_id, record |-> record]

article_task_writes_progress_kept(task, raised) ==
    <<StoreWrite(task.task_id, [status |-> "processing", progress |-> 0]),
      StoreWrite(task.task_id,
                 IF raised
                 THEN [status |-> "failed", progress |-> 100,
                       error |-> "exception"]
                 ELSE [status |-> "completed", progress |-> 100,
                       result |-> [keyword |-> task.keyword,
                                   goal |-> task.goal]])>>

\* The assignments generate_article_task makes to background_tasks_store,
\* in order, when pipeline.generate_full_article raises or returns.
article_task_writes(task, raised) ==
    <<StoreWrite(task.task_id, [status |-> "processing", progress |-> 0]),
      StoreWrite(task.task_id,
                 IF raised
                 THEN [status |-> "failed", progress |-> 0,
                       error |-> "exception"]
                 ELSE [status |-> "completed", progress |-> 100,
                       result |-> [keyword |-> task.keyword,
                                   goal |-> task.goal]])>>

\* background_tasks_store[task_id] = record, for each write in turn.
RECURSIVE ApplyWrites(_, _)
ApplyWrites(store, writes) ==
    IF writes = <<>> THEN store
    ELSE ApplyWrites((writes[1].task_id :> writes[1].record) @@ store,
                     Tail(writes))

\* generate_article_task: the coroutine has no await, so it runs from its
\* first store write to its last without any handler in between.
generate_article_task(task, outcome) ==
    LET got == retrieve_context(cache_enabled, context_cache, task.keyword,
                                task.goal, Seconds(now), outcome = "retriever")
        writes == article_task_writes(task,
                                      got.raised \/ outcome = "generator")
    IN  /\ task \in pending
        /\ pending' = pending \ {task}
        /\ background_tasks_store' = ApplyWrites(background_tasks_store, writes)
        /\ storeLog' = storeLog \o writes
        /\ context_cache' = got.cache
        /\ UNCHANGED <<req, resp, calls, nextTask>>
        /\ UNCHANGED authVars
        /\ UNCHANGED <<cache_enabled, pipeOut, fetchLog>>
        /\ UNCHANGED compVars
        /\ UNCHANGED storageVars

----------------------------------------------------------------------------
(* Requests the clients send.                                              *)

ApiCreds ==
    ForgedTokens \cup
    {NoCredentials, create_access_token([sub |-> 1, email |-> "a@x.io"], 0)}

Goals == {<<>>, <<"G">>}

Padded(s) == <<" ">> \o s \o <<"\t">>

KeywordValues ==
    {PyMissing, PyNone, PyInt(5), PyStr(<<>>), PyStr(Rep(" ", 3))}
    \cup {PyStr(Rep("a", n)) :
            n \in {MIN_KEYWORD_LENGTH - 1, MIN_KEYWORD_LENGTH,
                   MAX_KEYWORD_LENGTH, MAX_KEYWORD_LENGTH + 1}}
    \cup {PyStr(Padded(Rep("a", n))) :
            n \in {MIN_KEYWORD_LENGTH - 1, MIN_KEYWORD_LENGTH,
                   MAX_KEYWORD_LENGTH, MAX_KEYWORD_LENGTH + 1}}

\* A list of b blank entries followed by n keywords, alternately "ab", "Cd".
KeywordList(n, b) ==
    PyList([i \in 1..(b + n) |->
              IF i <= b THEN PyStr(<<" ">>)
              ELSE IF (i - b) % 2 = 1 THEN PyStr(<<"a", "b">>)
              ELSE PyStr(<<"C", "d">>)])

OtherKeywordsValues ==
    {PyMissing, PyNone, PyStr(<<"a", "b">>), PyList(<<>>),
     PyList(<<PyStr(<<"a">>)>>),
     PyList(<<PyInt(12), PyNone, PyInt(5)>>),
     PyList(<<PyInt(12), PyNone, PyStr(<<"a", "b">>), PyStr(<<>>)>>)}

BulkKeywordsValues ==
    OtherKeywordsValues
    \cup {KeywordList(n, b) :
            n \in {0, 1, 2, MAX_BULK_KEYWORDS - 1, MAX_BULK_KEYWORDS,
                   MAX_BULK_KEYWORDS + 1},
            b \in {0, 2}}

CalendarKeywordsValues ==
    OtherKeywordsValues
    \cup {KeywordList(n, b) :
            n \in {1, MAX_CALENDAR_KEYWORDS - 1, MAX_CALENDAR_KEYWORDS,
                   MAX_CALENDAR_KEYWORDS + 1},
            b \in {0, 2}}

Weeks == {0, 4}

\* A client whose token stays valid for the whole run, and one without.
LoggedIn == create_access_token([sub |-> 1, email |-> "a@x.io"], 0)
ClientCreds == {LoggedIn, NoCredentials}

\* A few requests of each kind, for the routes taken together.
FewKeywordValues ==
    {PyMissing, PyStr(<<"a">>), PyStr(<<"a", "b">>)}
FewKeywordsValues ==
    {PyNone, KeywordList(2, 0), KeywordList(1, 1)}
FewShapes == {"all_ok", "first_fails"}

\* Every route, the background task and the clock.
NextApi ==
    \/ Tick
    \/ \E cred \in ApiCreds, keyword \in FewKeywordValues, raises \in BOOLEAN :
          analyze_keyword(cred, keyword, <<>>, raises)
    \/ \E cred \in ApiCreds, keyword \in FewKeywordValues,
          outcome \in Outcomes :
          generate_content_brief_route(cred, keyword, <<>>, outcome)
    \/ \E cred \in ApiCreds, keyword \in FewKeywordValues :
          generate_full_article_route(cred, keyword, <<>>)
    \/ \E cred \in ApiCreds, keywords \in FewKeywordsValues,
          shape \in FewShapes :
          bulk_process_keywords_route(cred, keywords, <<>>, shape)
    \/ \E cred \in ApiCreds, keywords \in FewKeywordsValues,
          shape \in FewShapes :
          create_content_calendar(cred, keywords, 4, shape)
    \/ \E cred \in ApiCreds, task_id \in 1..MaxTasks :
          get_task_status(cred, task_id)
    \/ \E cred \in ApiCreds : get_pipeline_stats(cred)
    \/ \E task \in pending, outcome \in Outcomes :
          generate_article_task(task, outcome)

\* The three keyword routes, over keywords of every kind.
NextKeyword ==
    \/ \E cred \in ClientCreds, keyword \in KeywordValues, goal \in Goals,
          raises \in BOOLEAN :
          analyze_keyword(cred, keyword, goal, raises)
    \/ \E cred \in ClientCreds, keyword \in KeywordValues, goal \in Goals,
          outcome \in Outcomes :
          generate_content_brief_route(cred, keyword, goal, outcome)
    \/ \E cred \in ClientCreds, keyword \in KeywordValues, goal \in Goals :
          generate_full_article_route(cred, keyword, goal)

\* The two list routes, over keyword lists of every kind.
NextLists ==
    \/ \E cred \in ClientCreds, keywords \in BulkKeywordsValues,
          shape \in OutcomeShapes :
          bulk_process_keywords_route(cred, keywords, <<>>, shape)
    \/ \E cred \in ClientCreds, keywords \in CalendarKeywordsValues,
          weeks \in Weeks, shape \in OutcomeShapes :
          create_content_calendar(cred, keywords, weeks, shape)

----------------------------------------------------------------------------
(* utils.retry_with_backoff and the functions it wraps.  What the wrapped  *)
(* function does is given per invocation: behaviour[i] tells whether the   *)
(* i-th invocation raises, and carries the value it returns or the         *)
(* exception it raises.                                                    *)

RECURSIVE Pow2(_)
Pow2(n) == IF n = 0 THEN 1 ELSE 2 * Pow2(n - 1)

CallEvent(n)  == [kind |-> "call", n |-> n]
SleepEvent(d) == [kind |-> "sleep", n |-> d]

\* raise last_exception when no attempt has set it: raising None is a
\* TypeError.
RaiseLast(last_exception) ==
    IF last_exception = <<>> THEN <<"TypeError">> ELSE last_exception

RECURSIVE RetryLoopKeepsGoing(_, _, _, _, _)
RetryLoopKeepsGoing(max_retries, backoff_factor, behaviour, attempt, st) ==
    IF attempt >= max_retries + 1
    THEN [raised |-> TRUE, result |-> RaiseLast(st.last_exception),
          trace |-> st.trace]
    ELSE LET o == behaviour[attempt + 1]
             called == Append(st.trace, CallEvent(attempt + 1))
         IN  IF attempt = max_retries
             THEN [raised |-> o.raises, result |-> o.result, trace |-> called]
             ELSE RetryLoopKeepsGoing(max_retries, backoff_factor, behaviour,
                     attempt + 1,
                     [trace |-> IF o.raises
                                THEN Append(called,
                                            SleepEvent(backoff_factor
                                                       * Pow2(attempt)))
                                ELSE called,
                      last_exception |-> o.result])

RECURSIVE RetryLoopNoBreak(_, _, _, _, _)
RetryLoopNoBreak(max_retries, backoff_factor, behaviour, attempt, st) ==
    IF attempt >= max_retries + 1
    THEN [raised |-> TRUE, result |-> RaiseLast(st.last_exception),
          trace |-> st.trace]
    ELSE LET o == behaviour[attempt + 1]
             called == Append(st.trace, CallEvent(attempt + 1))
         IN  IF ~o.raises
             THEN [raised |-> FALSE, result |-> o.result, trace |-> called]
             ELSE RetryLoopNoBreak(max_retries, backoff_factor, behaviour,
                     attempt + 1,
                     [trace |-> Append(called,
                                       SleepEvent(backoff_factor * Pow2(attempt))),
                      last_exception |-> o.result])

\* for attempt in range(max_retries + 1): ... ; raise last_exception
RECURSIVE RetryLoop(_, _, _, _, _)
RetryLoop(max_retries, backoff_factor, behaviour, attempt, st) ==
    IF attempt >= max_retries + 1
    THEN [raised |-> TRUE, result |-> RaiseLast(st.last_exception),
          trace |-> st.trace]
    ELSE LET o == behaviour[attempt + 1]
             called == Append(st.trace, CallEvent(attempt + 1))
         IN  IF ~o.raises
             THEN [raised |-> FALSE, result |-> o.result, trace |-> called]
             ELSE IF attempt = max_retries
             THEN [raised |-> TRUE, result |-> RaiseLast(o.result),
                   trace |-> called]
             ELSE RetryLoop(max_retries, backoff_factor, behaviour,
                            attempt + 1,
                            [trace |-> Append(called,
                                              SleepEvent(backoff_factor
                                                         * Pow2(attempt))),
                             last_exception |-> o.result])

\* One call of a function decorated with
\* @retry_with_backoff(max_retries, backoff_factor).
retry_with_backoff(max_retries, backoff_factor, behaviour) ==
    RetryLoop(max_retries, backoff_factor, behaviour, 0,
              [trace |-> <<>>, last_exception |-> <<>>])

\* The i-th invocation of a test function: it raises exception <<"E", i>> or
\* returns value <<"V", i>>.
Behaviour(raises) ==
    [i \in 1..Len(raises) |->
        [raises |-> raises[i],
         result |-> IF raises[i] THEN <<"E", i>> ELSE <<"V", i>>]]

NoCompOut ==
    [op |-> "none", max_retries |-> 0, backoff_factor |-> 0,
     behaviour |-> <<>>, raised |-> FALSE, result |-> <<>>, trace |-> <<>>]

InitComp == compOut = NoCompOut

BackoffFactors == {1, 2}

\* A call of a function wrapped by retry_with_backoff.
CallWrapped(max_retries, backoff_factor, raises) ==
    LET behaviour == Behaviour(raises)
        r == retry_with_backoff(max_retries, backoff_factor, behaviour)
    IN  /\ compOut' = [op |-> "retry_with_backoff",
                       max_retries |-> max_retries,
                       backoff_factor |-> backoff_factor,
                       behaviour |-> behaviour, raised |-> r.raised,
                       result |-> r.result, trace |-> r.trace]
        /\ UNCHANGED authVars
        /\ UNCHANGED apiVars
        /\ UNCHANGED pipeVars
        /\ UNCHANGED storageVars

\* The body of DataRetriever.fetch_wikipedia_data for one invocation, with
\* the requests library present: the search request succeeds or raises, and
\* the body's own except clause turns a raise into an empty list.
fetch_wikipedia_data_body(http) ==
    IF http = "ok"
    THEN [raises |-> FALSE, result |-> <<"WikipediaResult">>]
    ELSE [raises |-> FALSE, result |-> <<>>]

\* DataRetriever.fetch_wikipedia_data as decorated; https[i] is what the
\* i-th search request does.
fetch_wikipedia_data(https) ==
    retry_with_backoff(WIKIPEDIA_MAX_RETRIES, DEFAULT_BACKOFF_FACTOR,
                       [i \in 1..Len(https) |->
                           fetch_wikipedia_data_body(https[i])])

CallFetchWikipedia(https) ==
    LET r == fetch_wikipedia_data(https)
    IN  /\ compOut' = [op |-> "fetch_wikipedia_data",
                       max_retries |-> WIKIPEDIA_MAX_RETRIES,
                       backoff_factor |-> DEFAULT_BACKOFF_FACTOR,
                       behaviour |-> https, raised |-> r.raised,
                       result |-> r.result, trace |-> r.trace]
        /\ UNCHANGED authVars
        /\ UNCHANGED apiVars
        /\ UNCHANGED pipeVars
        /\ UNCHANGED storageVars

\* What the Gemini call of one generate_* method does: it raises, or
\* response.text is the given text.
LlmRaises == [raises |-> TRUE, text |-> <<>>]
LlmText(text) == [raises |-> FALSE, text |-> text]

GuideTo == <<"T", "h", "e", " ", "C", "o", "m", "p", "l", "e", "t", "e", " ",
             "G", "u", "i", "d", "e", " ", "t", "o", " ">>

\* The body of ContentGenerator.generate_title for one invocation.
generate_title_body(keyword, llm) ==
    IF llm.raises
    THEN [raises |-> FALSE, result |-> GuideTo \o TitleCase(keyword)]
    ELSE LET title == RemoveQuotes(Strip(llm.text))
         IN  [raises |-> FALSE,
              result |-> IF Len(title) > TITLE_OPTIMAL_LENGTH
                         THEN RSplitHead(SubSeq(title, 1, TITLE_OPTIMAL_LENGTH))
                         ELSE title]

\* ContentGenerator.generate_title as decorated.
generate_title(keyword, llm) ==
    retry_with_backoff(GENERATE_MAX_RETRIES, DEFAULT_BACKOFF_FACTOR,
                       [i \in 1..(GENERATE_MAX_RETRIES + 1) |->
                           generate_title_body(keyword, llm)])

\* ContentGenerator.generate_content_brief: the brief's keyword and title.
generator_generate_content_brief(keyword, llm) ==
    LET title == generate_title(keyword, llm)
    IN  [raised |-> title.raised,
         brief |-> [keyword |-> keyword, title |-> title.result,
                    content_type |-> "blog_post"],
         trace |-> title.trace]

CallGenerateBrief(keyword, llm) ==
    LET r == generator_generate_content_brief(keyword, llm)
    IN  /\ compOut' = [op |-> "generate_content_brief",
                       max_retries |-> GENERATE_MAX_RETRIES,
                       backoff_factor |-> DEFAULT_BACKOFF_FACTOR,
                       behaviour |-> <<keyword, llm>>, raised |-> r.raised,
                       result |-> r.brief, trace |-> r.trace]
        /\ UNCHANGED authVars
        /\ UNCHANGED apiVars
        /\ UNCHANGED pipeVars
        /\ UNCHANGED storageVars

Quoted(s) == <<"\"">> \o s \o <<"\"">>

ContextKeywords == {<<>>, <<"a", "b">>, <<"s", "e", "o", " ", "t", "i", "p">>}

LlmTexts ==
    {<<>>, <<" ">>, <<" ", "\n", "\t">>, <<"\"", "\"">>, <<"'">>,
     <<"B", "e", "s", "t", " ", "a", "b">>,
     Quoted(<<"B", "e", "s", "t", " ", "a", "b">>),
     Rep("x", TITLE_OPTIMAL_LENGTH), Rep("x", TITLE_OPTIMAL_LENGTH + 1),
     <<"a", "b", " ">> \o Rep("x", TITLE_OPTIMAL_LENGTH),
     Quoted(<<" ">> \o Rep("x", TITLE_OPTIMAL_LENGTH)),
     Quoted(<<" ">> \o Rep("x", TITLE_OPTIMAL_LENGTH - 1))}

LlmBehaviours == {LlmRaises} \cup {LlmText(t) : t \in LlmTexts}

NextRetry ==
    \/ \E keyword \in ContextKeywords, llm \in LlmBehaviours :
          CallGenerateBrief(keyword, llm)
    \/ \E max_retries \in -1..MaxRetries, backoff_factor \in BackoffFactors :
          \E raises \in [1..(max_retries + 1) -> BOOLEAN] :
             CallWrapped(max_retries, backoff_factor, raises)
    \/ \E https \in [1..(WIKIPEDIA_MAX_RETRIES + 1) -> {"ok", "fail"}] :
          CallFetchWikipedia(https)

----------------------------------------------------------------------------
(* ContentGenerator.generate_meta_description.                             *)

LearnEverythingAbout ==
    <<"L", "e", "a", "r", "n", " ", "e", "v", "e", "r", "y", "t", "h", "i",
      "n", "g", " ", "a", "b", "o", "u", "t", " ">>

InThisGuide ==
    <<" ", "i", "n", " ", "t", "h", "i", "s", " ", "c", "o", "m", "p", "r",
      "e", "h", "e", "n", "s", "i", "v", "e", " ", "g", "u", "i", "d", "e",
      ".", " ", "E", "x", "p", "e", "r", "t", " ", "t", "i", "p", "s", ",",
      " ", "b", "e", "s", "t", " ", "p", "r", "a", "c", "t", "i", "c", "e",
      "s", ",", " ", "a", "n", "d", " ", "a", "c", "t", "i", "o", "n", "a",
      "b", "l", "e", " ", "i", "n", "s", "i", "g", "h", "t", "s", ".">>

Ellipsis == <<".", ".", ".">>

\* The body of ContentGenerator.generate_meta_description for one
\* invocation.
generate_meta_description_body(keyword, llm) ==
    IF llm.raises
    THEN [raises |-> FALSE,
          result |-> LearnEverythingAbout \o keyword \o InThisGuide]
    ELSE LET meta_desc == Strip(llm.text)
         IN  [raises |-> FALSE,
              result |-> IF Len(meta_desc) > META_DESCRIPTION_MAX_LENGTH
                         THEN RSplitHead(SubSeq(meta_desc, 1,
                                                META_DESCRIPTION_MAX_LENGTH))
                              \o Ellipsis
                         ELSE meta_desc]

\* ContentGenerator.generate_meta_description as decorated.
generate_meta_description(keyword, llm) ==
    retry_with_backoff(GENERATE_MAX_RETRIES, DEFAULT_BACKOFF_FACTOR,
                       [i \in 1..(GENERATE_MAX_RETRIES + 1) |->
                           generate_meta_description_body(keyword, llm)])

CallGenerateMetaDescription(keyword, llm) ==
    LET r == generate_meta_description(keyword, llm)
    IN  /\ compOut' = [op |-> "generate_meta_description",
                       max_retries |-> GENERATE_MAX_RETRIES,
                       backoff_factor |-> DEFAULT_BACKOFF_FACTOR,
                       behaviour |-> <<keyword, llm>>, raised |-> r.raised,
                       result |-> r.result, trace |-> r.trace]
        /\ UNCHANGED authVars
        /\ UNCHANGED apiVars
        /\ UNCHANGED pipeVars
        /\ UNCHANGED storageVars

\* Texts around the length limit: a word, a space and a second word, and
\* single words without a space.
TwoWordTexts ==
    {Rep("x", a) \o <<" ">> \o Rep("y", b) :
        a \in {0, 1, 100, 152, 153, 154, 155}, b \in {0, 1, 2, 3, 60}}
OneWordTexts ==
    {Rep("x", n) : n \in (META_DESCRIPTION_MAX_LENGTH - 1)
                         ..(META_DESCRIPTION_MAX_LENGTH + 3)}
MetaBehaviours ==
    {LlmRaises} \cup {LlmText(t) : t \in TwoWordTexts \cup OneWordTexts}

NextMeta ==
    \E keyword \in ContextKeywords, llm \in MetaBehaviours :
       CallGenerateMetaDescription(keyword, llm)

----------------------------------------------------------------------------
(* The calendar on its own: plan_content_calendar called on the pipeline   *)
(* object, and a ContentCalendar built by add_item calls.                  *)

CalendarKeywords == {<<"a", "b">>, <<"c", "d">>}
Priorities == {1, 2, 3}
CalendarWeeks == {1, 2, 3}
RetrievalOutcomes == {"ok", "retriever"}

\* The call of plan_content_calendar a run is about to make.
PlanCall(keywords, timeframe_weeks, outcomes, priorities) ==
    [op |-> "call", keywords |-> keywords,
     timeframe_weeks |-> timeframe_weeks, outcomes |-> outcomes,
     priorities |-> priorities, raised |-> FALSE,
     calendar |-> [timeframe_weeks |-> timeframe_weeks]]

\* A pipeline object and the arguments of the call, drawn from every
\* keyword list, timeframe, retrieval outcome and priority score.
InitPlanCall ==
    /\ cache_enabled = TRUE
    /\ context_cache = <<>>
    /\ fetchLog = [k \in PipeKeys |-> -1]
    /\ \E ks \in SeqsUpTo(CalendarKeywords, MaxCalendarItems),
          timeframe_weeks \in CalendarWeeks :
          \E outcomes \in [1..Len(ks) -> RetrievalOutcomes],
             priorities \in [1..Len(ks) -> Priorities] :
             pipeOut = PlanCall(ks, timeframe_weeks, outcomes, priorities)

\* pipeline.plan_content_calendar(keywords, timeframe_weeks)
PipeCalendar ==
    LET r == plan_content_calendar(cache_enabled, context_cache,
                                   pipeOut.keywords, pipeOut.timeframe_weeks,
                                   Seconds(now), pipeOut.outcomes,
                                   pipeOut.priorities)
    IN  /\ pipeOut.op = "call"
        /\ context_cache' = r.cache
        /\ pipeOut' = [pipeOut EXCEPT !.op = "plan_content_calendar",
                                      !.raised = r.raised,
                                      !.calendar = r.calendar]
        /\ UNCHANGED <<cache_enabled, fetchLog>>
        /\ UNCHANGED authVars
        /\ UNCHANGED apiVars
        /\ UNCHANGED compVars
        /\ UNCHANGED storageVars

NextCalendar == PipeCalendar

\* ContentCalendar(timeframe_weeks, total_keywords): an empty schedule.
NewCalendar ==
    /\ compOut' = [op |-> "ContentCalendar", schedule |-> <<>>,
                   added |-> <<>>]
    /\ UNCHANGED authVars
    /\ UNCHANGED apiVars
    /\ UNCHANGED pipeVars
    /\ UNCHANGED storageVars

\* calendar.add_item(item) on the calendar built so far.
CalendarAddItem(item) ==
    /\ compOut.op = "ContentCalendar"
    /\ Len(compOut.added) < MaxCalendarItems
    /\ compOut' = [op |-> "ContentCalendar",
                   schedule |-> add_item(compOut.schedule, item),
                   added |-> Append(compOut.added, item)]
    /\ UNCHANGED authVars
    /\ UNCHANGED apiVars
    /\ UNCHANGED pipeVars
    /\ UNCHANGED storageVars

NextAddItem ==
    \/ NewCalendar
    \/ \E keyword \in CalendarKeywords, priority_score \in Priorities,
          target_week \in {1, 2} :
          CalendarAddItem(CalendarItem(keyword, priority_score, target_week))

----------------------------------------------------------------------------
(* backend/storage.py.  A stored item is a JSON file in the directory of   *)
(* its content type; its id is a fresh uuid4, so no two files share one.   *)
(* delete_content awaits between its ownership check and the removal, so   *)
(* other storage calls may run in between.                                 *)

ContentTypes == {"article", "analysis", "brief", "calendar"}

StoredFile(content_id, content_type, user_id) ==
    [id |-> content_id, type |-> content_type, user_id |-> user_id]

\* What load_content returns when it finds nothing or catches an exception.
NoContent == [id |-> 0, type |-> "none", user_id |-> "none"]

\* StorageManager.load_content: the ValueError of an unknown type is caught
\* and None returned; otherwise the file of that directory with the id.
load_content(fs, content_id, content_type) ==
    LET found == {f \in fs : f.type = content_type /\ f.id = content_id}
    IN  IF content_type \notin ContentTypes \/ found = {} THEN NoContent
        ELSE CHOOSE f \in found : TRUE

\* The first half of delete_content without its ownership check.
delete_content_check_any_owner(fs, content_id, content_type, user_id) ==
    load_content(fs, content_id, content_type) # NoContent

\* The first half of delete_content: TRUE when the call goes on to look for
\* the file to remove, FALSE when it returns False.
delete_content_check(fs, content_id, content_type, user_id) ==
    LET content == load_content(fs, content_id, content_type)
    IN  /\ content # NoContent
        /\ content.user_id = user_id

\* The second half of delete_content: the files left and the value returned.
delete_content_remove(fs, content_id, content_type) ==
    LET found == {f \in fs : f.type = content_type /\ f.id = content_id}
    IN  IF content_type \notin ContentTypes \/ found = {}
        THEN [files |-> fs, result |-> FALSE]
        ELSE [files |-> fs \ {CHOOSE f \in found : TRUE}, result |-> TRUE]

StorageOut(op, content_id, content_type, user_id, result) ==
    [op |-> op, content_id |-> content_id, content_type |-> content_type,
     user_id |-> user_id, result |-> result]

InitStorage ==
    /\ files = {}
    /\ nextContent = 0
    /\ deleting = {}
    /\ storageOut = StorageOut("none", 0, "none", "none", FALSE)

\* save_article, save_analysis, save_brief and save_calendar: a new file
\* with a fresh id, owned by the caller.
save_content(content_type, user_id) ==
    /\ nextContent < MaxContent
    /\ nextContent' = nextContent + 1
    /\ files' = files \cup {StoredFile(nextContent + 1, content_type, user_id)}
    /\ storageOut' = StorageOut("save", nextContent + 1, content_type,
                                user_id, TRUE)
    /\ UNCHANGED deleting
    /\ UNCHANGED authVars
    /\ UNCHANGED apiVars
    /\ UNCHANGED pipeVars
    /\ UNCHANGED compVars

save_article(user_id) == save_content("article", user_id)
save_analysis(user_id) == save_content("analysis", user_id)
save_brief(user_id) == save_content("brief", user_id)
save_calendar(user_id) == save_content("calendar", user_id)

\* delete_content up to the end of its ownership check.
delete_content_begin(content_id, content_type, user_id) ==
    LET call == [content_id |-> content_id, content_type |-> content_type,
                 user_id |-> user_id]
    IN  /\ Cardinality(deleting \cup {call}) <= MaxDeleting
        /\ IF delete_content_check(files, content_id, content_type, user_id)
           THEN /\ deleting' = deleting \cup {call}
                /\ UNCHANGED storageOut
           ELSE /\ storageOut' = StorageOut("delete_content", content_id,
                                            content_type, user_id, FALSE)
                /\ UNCHANGED deleting
        /\ UNCHANGED <<files, nextContent>>
        /\ UNCHANGED authVars
        /\ UNCHANGED apiVars
        /\ UNCHANGED pipeVars
        /\ UNCHANGED compVars

\* delete_content from there: find the file, remove it, return.
delete_content_finish(call) ==
    LET done == delete_content_remove(files, call.content_id,
                                      call.content_type)
    IN  /\ call \in deleting
        /\ deleting' = deleting \ {call}
        /\ files' = done.files
        /\ storageOut' = StorageOut("delete_content", call.content_id,
                                    call.content_type, call.user_id,
                                    done.result)
        /\ UNCHANGED nextContent
        /\ UNCHANGED authVars
        /\ UNCHANGED apiVars
        /\ UNCHANGED pipeVars
        /\ UNCHANGED compVars

StorageUsers == {"u1", "u2"}
RequestedTypes == ContentTypes \cup {"video"}

NextStorage ==
    \/ \E user_id \in StorageUsers : save_article(user_id)
    \/ \E user_id \in StorageUsers : save_analysis(user_id)
    \/ \E user_id \in StorageUsers : save_brief(user_id)
    \/ \E user_id \in StorageUsers : save_calendar(user_id)
    \/ \E content_id \in 1..(MaxContent + 1), content_type \in RequestedTypes,
          user_id \in StorageUsers :
          delete_content_begin(content_id, content_type, user_id)
    \/ \E call \in deleting : delete_content_finish(call)

----------------
(* The specifications.                                                     *)

Init ==
    InitAuth /\ InitApi /\ InitPipeWith(TRUE) /\ InitComp /\ InitStorage
Next == NextApi
Spec == Init /\ [][Next]_vars

SpecAuth == Init /\ [][NextAuth]_vars
SpecKeyword == Init /\ [][NextKeyword]_vars
SpecLists == Init /\ [][NextLists]_vars

InitPipe ==
    /\ InitAuth /\ InitApi /\ InitComp /\ InitStorage
    /\ \E enabled \in BOOLEAN : InitPipeWith(enabled)
SpecPipe == InitPipe /\ [][NextPipe]_vars
SpecBulk == InitPipe /\ [][NextBulk]_vars

SpecRetry == Init /\ [][NextRetry]_vars
InitCalendar ==
    InitAuth /\ InitApi /\ InitComp /\ InitStorage /\ InitPlanCall
SpecCalendar == InitCalendar /\ [][NextCalendar]_vars
SpecAddItem == Init /\ [][NextAddItem]_vars
SpecStorage == Init /\ [][NextStorage]_vars
SpecMeta == Init /\ [][NextMeta]_vars

----------------------------------------------------------------------------
(* What the specification's words mean, stated on their own.               *)

\* A token whose exp claim is not after time t.
Expired(token, t) == token.hasExp /\ token.exp <= t

\* A token signed by the server: HS256 under the server's secret.
SignedWithSecret(token) == token.alg = ALGORITHM /\ token.key = SECRET_KEY

\* A request's bearer credential is a valid JWT at time t.
ValidBearer(cred, t) ==
    /\ cred # NoCredentials
    /\ cred.wf
    /\ SignedWithSecret(cred)
    /\ cred.hasSub
    /\ ~Expired(cred, t)

SeoRoutes == {"/seo/analyze", "/seo/brief", "/seo/article", "/seo/bulk",
              "/seo/calendar"}
KeywordRoutes == {"/seo/analyze", "/seo/brief", "/seo/article"}

\* The request's keyword is a string whose stripped length is within bounds.
KeywordWithinBounds(keyword) ==
    /\ IsStr(keyword)
    /\ Len(Strip(keyword.s)) >= MIN_KEYWORD_LENGTH
    /\ Len(Strip(keyword.s)) <= MAX_KEYWORD_LENGTH

\* The entries of a request's list that are not blank once made strings and
\* stripped.
NonBlankEntries(l) ==
    Cardinality({i \in 1..Len(l) : Strip(ToStr(l[i])) # <<>>})

----------------------------------------------------------------------------
(* The pipeline's context cache (SpecPipe).                                *)

\* C1: with caching enabled, a retrieve_context call for a keyword and goal
\* whose lower-cased pair was fetched less than CONTEXT_CACHE_TTL seconds
\* earlier returns that cached context without calling the retriever again.
C1_CachedContextReused ==
    (/\ pipeOut.op = "retrieve_context"
     /\ cache_enabled
     /\ pipeOut.prevFetch >= 0
     /\ pipeOut.at - pipeOut.prevFetch < CONTEXT_CACHE_TTL)
    => (/\ ~pipeOut.fetched
        /\ pipeOut.context.retrieval_timestamp = pipeOut.prevFetch)

----------------------------------------------------------------------------
(* Accounts and tokens (SpecAuth).                                         *)

\* C2: logging in with the email and password of a registered account
\* returns a token, and get_current_user accepts that token, as the user who
\* registered, at any time before its 30 minute expiry.
C2_LoginTokenAccepted ==
    /\ (/\ authOut.op = "login"
        /\ \E r \in registered : /\ r.email = authOut.email
                                 /\ r.password = authOut.password)
       => (/\ authOut.status = 200
           /\ authOut.token # NoCredentials
           /\ authOut.token \in IssuedTokens)
    /\ \A i \in issued :
         (/\ authOut.op = "auth"
          /\ authOut.token = i.token
          /\ authOut.at >= i.at
          /\ authOut.at < i.at + ACCESS_TOKEN_EXPIRE_MINUTES)
         => (/\ authOut.status = 200
             /\ \E r \in registered : r.email = i.email /\ r.id = authOut.id)

\* A token from a login is presented later, still within its lifetime, and
\* accepted.
C2_Witness ==
    \E i \in issued :
       /\ authOut.op = "auth"
       /\ authOut.token = i.token
       /\ authOut.at > i.at
       /\ authOut.at < i.at + ACCESS_TOKEN_EXPIRE_MINUTES
       /\ authOut.status = 200

\* C3: get_current_user answers 401, and returns no user, for a token that
\* is expired, is not a well-formed JWT, is not signed with the server's
\* secret, or carries no sub claim.
C3_BadTokenRejected ==
    (/\ authOut.op = "auth"
     /\ authOut.token # NoCredentials
     /\ \/ Expired(authOut.token, authOut.at)
        \/ ~authOut.token.wf
        \/ ~SignedWithSecret(authOut.token)
        \/ ~authOut.token.hasSub)
    => (authOut.status = 401 /\ authOut.id = 0)

\* A token the server issued is presented once it has expired, and refused.
C3_Witness ==
    /\ authOut.op = "auth"
    /\ authOut.token \in IssuedTokens
    /\ Expired(authOut.token, authOut.at)
    /\ authOut.status = 401

----------------------------------------------------------------------------
(* The routes and their tokens (Spec).                                     *)

C5_TaskRoutesNeedToken ==
    (/\ req.endpoint \in {"/tasks", "/stats"}
     /\ ~ValidBearer(req.cred, req.at))
    => (/\ resp.status \in {401, 403}
        /\ resp.body = <<>>)

----------------------------------------------------------------------------
(* The keyword check of the keyword routes (SpecKeyword).                  *)

\* The handler went on past its checks: it invoked the pipeline with the
\* stripped keyword, or scheduled the article's background task.
KeywordAccepted ==
    IF req.endpoint = "/seo/article"
    THEN resp.status = 200 /\ resp.scheduled # {}
    ELSE /\ Len(calls) = 1
         /\ calls[1].arg = Strip(req.keyword.s)

\* C6: on /seo/analyze, /seo/brief and /seo/article an authenticated request
\* whose keyword is missing, is no string, or has a stripped length below 2
\* or above 200 is rejected without invoking the pipeline or scheduling a
\* task; stripped lengths from 2 to 200, both included, are accepted.
C6_KeywordLengthChecked ==
    (/\ req.endpoint \in KeywordRoutes
     /\ ValidBearer(req.cred, req.at))
    => IF KeywordWithinBounds(req.keyword)
       THEN KeywordAccepted
       ELSE /\ calls = <<>>
            /\ resp.scheduled = {}
            /\ resp.status \notin {0, 200}

\* A keyword of 200 characters between padding goes through to the pipeline.
C6_Witness ==
    /\ req.endpoint = "/seo/analyze"
    /\ ValidBearer(req.cred, req.at)
    /\ IsStr(req.keyword)
    /\ Len(req.keyword.s) > MAX_KEYWORD_LENGTH
    /\ Len(Strip(req.keyword.s)) = MAX_KEYWORD_LENGTH
    /\ Len(calls) = 1

\* C7: on /seo/analyze, /seo/brief and /seo/article a keyword that fails the
\* check is reported to the client as HTTP 400.
C7_ValidationIs400 ==
    (/\ req.endpoint \in KeywordRoutes
     /\ ValidBearer(req.cred, req.at)
     /\ ~KeywordWithinBounds(req.keyword))
    => resp.status = 400

----------------------------------------------------------------------------
(* The list routes (SpecLists).                                            *)

\* The results of a response that carry the given status.
ResultsWith(status) ==
    Cardinality({i \in 1..Len(resp.body.results) :
                    resp.body.results[i].status = status})

\* The summary of a /seo/bulk response accounts for n keywords.
SummaryAccountsFor(n) ==
    /\ resp.body.summary.total_keywords = n
    /\ resp.body.summary.successful + resp.body.summary.failed = n
    /\ resp.body.summary.successful = ResultsWith("success")
    /\ resp.body.summary.failed = ResultsWith("failed")
    /\ Len(resp.body.results) = n

\* C8 as the specification states it: a /seo/bulk response's summary counts
\* as many keywords, successful and failed together, as the request's list
\* has entries, and results holds that many elements.
C8_SummaryCountsEntries ==
    (req.endpoint = "/seo/bulk" /\ resp.status = 200)
    => SummaryAccountsFor(Len(req.keywords.l))

\* C8, amended: a /seo/bulk response's summary counts, successful and failed
\* together, the entries of the request's list that are not blank once made
\* strings and stripped, and results holds one element for each of them.
C8_SummaryCountsKeptEntries ==
    (req.endpoint = "/seo/bulk" /\ resp.status = 200)
    => SummaryAccountsFor(NonBlankEntries(req.keywords.l))

\* A list with blank entries is processed, one of its keywords failing.
C8_Witness ==
    /\ req.endpoint = "/seo/bulk"
    /\ resp.status = 200
    /\ NonBlankEntries(req.keywords.l) < Len(req.keywords.l)
    /\ resp.body.summary.failed > 0
    /\ resp.body.summary.successful > 0

\* The cap of a list route.
ListCap(endpoint) ==
    IF endpoint = "/seo/bulk" THEN MAX_BULK_KEYWORDS ELSE MAX_CALENDAR_KEYWORDS

\* The request is refused with 400 before the pipeline sees a keyword.
RejectedBeforeProcessing == resp.status = 400 /\ calls = <<>>

\* C9 as the specification states it: an authenticated /seo/bulk request
\* with more than 50 entries, or /seo/calendar request with more than 100,
\* is rejected with 400 before any keyword is processed.
C9_LongListsRejected ==
    (/\ req.endpoint \in {"/seo/bulk", "/seo/calendar"}
     /\ ValidBearer(req.cred, req.at)
     /\ IsList(req.keywords)
     /\ Len(req.keywords.l) > ListCap(req.endpoint))
    => RejectedBeforeProcessing

\* C9, amended: the request is rejected with 400 before any keyword is
\* processed when more than 50 (bulk) or 100 (calendar) of its entries are
\* not blank once made strings and stripped.
C9_LongKeptListsRejected ==
    (/\ req.endpoint \in {"/seo/bulk", "/seo/calendar"}
     /\ ValidBearer(req.cred, req.at)
     /\ IsList(req.keywords)
     /\ NonBlankEntries(req.keywords.l) > ListCap(req.endpoint))
    => RejectedBeforeProcessing

\* A calendar is asked for with 101 keywords, all of valid length.
C9_Witness ==
    /\ req.endpoint = "/seo/calendar"
    /\ ValidBearer(req.cred, req.at)
    /\ IsList(req.keywords)
    /\ NonBlankEntries(req.keywords.l) = MAX_CALENDAR_KEYWORDS + 1
    /\ \A i \in 1..Len(req.keywords.l) :
          Strip(ToStr(req.keywords.l[i])) = <<>>
          \/ KeywordLengthOk(Strip(ToStr(req.keywords.l[i])))
    /\ resp.status = 400

----------------------------------------------------------------------------
(* The pipeline's bulk loop (SpecBulk).                                    *)

\* C10: pipeline.bulk_process_keywords returns one result per input keyword,
\* in input order; a keyword whose brief generation raises gets a result
\* with status "failed" and an error, and the keywords after it are still
\* processed.
C10_OneResultPerKeyword ==
    pipeOut.op = "bulk_process_keywords"
    => /\ Len(pipeOut.results) = Len(pipeOut.keywords)
       /\ pipeOut.processed = pipeOut.keywords
       /\ \A i \in 1..Len(pipeOut.keywords) :
             /\ i <= Len(pipeOut.results)
             /\ pipeOut.results[i].keyword = pipeOut.keywords[i]
             /\ IF pipeOut.outcomes[i] = "ok"
                THEN pipeOut.results[i].status = "success"
                ELSE /\ pipeOut.results[i].status = "failed"
                     /\ "error" \in DOMAIN pipeOut.results[i]

\* The first keyword's generation raises and the second one's succeeds.
C10_Witness ==
    /\ pipeOut.op = "bulk_process_keywords"
    /\ Len(pipeOut.keywords) >= 2
    /\ pipeOut.outcomes[1] # "ok"
    /\ Len(pipeOut.results) >= 2
    /\ pipeOut.results[1].status = "failed"
    /\ pipeOut.results[2].status = "success"

----------------------------------------------------------------------------
(* The users table (SpecAuth).                                             *)

\* No two rows of the users table have the same email.
UniqueEmails(rows) ==
    \A i, j \in 1..Len(rows) : rows[i].email = rows[j].email => i = j

\* The step is a POST /auth/register request.
RegisterStep ==
    /\ authOut'.op = "register"
    /\ now' = now
    /\ issued' = issued

----------------------------------------------------------------------------
(* The retry wrapper (SpecRetry).                                          *)

\* The invocations of the wrapped function in the last call's trace, and
\* the sleeps.
Invocations ==
    SelectSeq(compOut.trace, LAMBDA e : e.kind = "call")
Sleeps ==
    SelectSeq(compOut.trace, LAMBDA e : e.kind = "sleep")

\* The attempts of the last wrapped call that do not raise.
Succeeding ==
    {i \in 1..Len(compOut.behaviour) : ~compOut.behaviour[i].raises}

\* C12: for max_retries >= 0 a function wrapped by retry_with_backoff is
\* invoked at least once and at most max_retries + 1 times per call; the
\* wrapper returns the value of the first attempt that does not raise and
\* makes no further attempt after it.
C12_AttemptsBounded ==
    (compOut.op = "retry_with_backoff" /\ compOut.max_retries >= 0)
    => /\ Len(Invocations) >= 1
       /\ Len(Invocations) <= compOut.max_retries + 1
       /\ \A i \in 1..Len(Invocations) : Invocations[i].n = i
       /\ Succeeding # {}
          => LET first == CHOOSE i \in Succeeding :
                             \A j \in Succeeding : i <= j
             IN  /\ ~compOut.raised
                 /\ compOut.result = compOut.behaviour[first].result
                 /\ Len(Invocations) = first
                 /\ compOut.trace[Len(compOut.trace)] = CallEvent(first)

\* The first attempt raises, the second returns, and a later one would have
\* returned too.
C12_Witness ==
    /\ compOut.op = "retry_with_backoff"
    /\ compOut.max_retries >= 2
    /\ 1 \notin Succeeding
    /\ {2, 3} \subseteq Succeeding
    /\ compOut.result = <<"V", 2>>

\* C13: when all max_retries + 1 attempts raise, the wrapper raises the
\* exception of the final attempt, not an earlier one, and does not sleep
\* after that final attempt.
C13_LastExceptionRaised ==
    (/\ compOut.op = "retry_with_backoff"
     /\ compOut.max_retries >= 0
     /\ Succeeding = {})
    => /\ compOut.raised
       /\ compOut.result = compOut.behaviour[compOut.max_retries + 1].result
       /\ Len(Invocations) = compOut.max_retries + 1
       /\ Len(Sleeps) = compOut.max_retries
       /\ compOut.trace[Len(compOut.trace)]
             = CallEvent(compOut.max_retries + 1)

\* Three attempts, all raising: the third one's exception comes out.
C13_Witness ==
    /\ compOut.op = "retry_with_backoff"
    /\ compOut.max_retries = 2
    /\ Succeeding = {}
    /\ compOut.raised
    /\ compOut.result = <<"E", 3>>
    /\ Len(Sleeps) = 2

----------------------------------------------------------------------------
(* The Wikipedia fetch (SpecRetry).                                        *)

\* C14: when the Wikipedia search request fails, fetch_wikipedia_data
\* sends it again, up to the maximum number of retries, before it gives up
\* and returns an empty result.
C14_FailedFetchRetried ==
    (/\ compOut.op = "fetch_wikipedia_data"
     /\ compOut.behaviour[1] = "fail")
    => /\ Len(Invocations) >= 2
       /\ (\A i \in 1..Len(compOut.behaviour) : compOut.behaviour[i] = "fail")
          => Len(Invocations) = WIKIPEDIA_MAX_RETRIES + 1
       /\ compOut.result = <<>>
          => \A i \in 1..Len(compOut.behaviour) : compOut.behaviour[i] = "fail"

----------------------------------------------------------------------------
(* The cache's expiry and cap (SpecPipe, Spec).                            *)

\* No retrieve_context call, bulk call or route handler ever leaves an
\* entry in the context cache: _cache_context returns before storing while
\* the dict is empty, and it starts empty.  The cases of an entry that is
\* found expired, and of an insertion beyond the cap, therefore never arise.
CacheNeverFilled == context_cache = <<>>

\* retrieve_context returns no context fetched CONTEXT_CACHE_TTL seconds ago
\* or earlier.
NoStaleContext ==
    (pipeOut.op = "retrieve_context" /\ ~pipeOut.raised)
    => pipeOut.at - pipeOut.context.retrieval_timestamp < CONTEXT_CACHE_TTL

----------------------------------------------------------------------------
(* The bodies of /seo/brief (SpecKeyword) and /seo/calendar (SpecLists).   *)

\* The handler invoked the pipeline once and the pipeline returned.
PipelineReturned == Len(calls) = 1 /\ ~calls[1].raised

\* C17: an authenticated POST /seo/brief with a valid keyword, for which
\* the pipeline returns a ContentBrief, answers 200 with a body carrying
\* the brief's title, meta_description, content_type, word_count_target and
\* outline.
C17_BriefAnswered ==
    (/\ req.endpoint = "/seo/brief"
     /\ ValidBearer(req.cred, req.at)
     /\ KeywordWithinBounds(req.keyword)
     /\ PipelineReturned)
    => /\ resp.status = 200
       /\ {"title", "meta_description", "content_type", "word_count_target",
           "outline"} \subseteq DOMAIN resp.body
       /\ resp.body.title = ContentBrief(Strip(req.keyword.s)).title

\* C18: an authenticated POST /seo/calendar with a valid keywords list, for
\* which the pipeline returns a ContentCalendar, answers 200 with a body
\* carrying timeframe_weeks, total_keywords and an items list with one
\* entry per planned keyword.
C18_CalendarAnswered ==
    (/\ req.endpoint = "/seo/calendar"
     /\ ValidBearer(req.cred, req.at)
     /\ IsList(req.keywords)
     /\ PipelineReturned)
    => /\ resp.status = 200
       /\ {"timeframe_weeks", "total_keywords", "items"}
             \subseteq DOMAIN resp.body
       /\ resp.body.timeframe_weeks = req.timeframe_weeks
       /\ Len(resp.body.items) <= NonBlankEntries(req.keywords.l)

----------------------------------------------------------------------------
(* The content generator's title (SpecRetry).                              *)

\* C19: for every SEO context and every behaviour of the LLM call (any
\* text, empty or whitespace-only text included, or an exception),
\* ContentGenerator.generate_content_brief returns a brief whose title is
\* not empty.
C19_TitleNeverEmpty ==
    compOut.op = "generate_content_brief"
    => /\ ~compOut.raised
       /\ compOut.result.title # <<>>

----------------------------------------------------------------------------
(* The task store (Spec).                                                  *)

TaskStatuses == {"processing", "completed", "failed"}

\* A task record's status is one of the three, and its progress is 100
\* exactly when it is completed.
WellFormedRecord(record) ==
    /\ record.status \in TaskStatuses
    /\ record.progress = 100 <=> record.status = "completed"

\* The positions of the store's write history that write the given task.
WritesOf(task_id) ==
    {i \in 1..Len(storeLog) : storeLog[i].task_id = task_id}

\* C20: every entry of background_tasks_store has status "processing",
\* "completed" or "failed"; a task's status only moves from "processing" to
\* "completed" or "failed"; progress is 100 exactly when the status is
\* "completed"; an entry that is "completed" or "failed" is never written
\* again and never leaves the store.
C20_TaskStatusMoves ==
    /\ \A id \in DOMAIN background_tasks_store :
          WellFormedRecord(background_tasks_store[id])
    /\ \A i \in 1..Len(storeLog) :
          LET id == storeLog[i].task_id
              before == {j \in WritesOf(id) : j < i}
          IN  /\ WellFormedRecord(storeLog[i].record)
              /\ IF before = {}
                 THEN storeLog[i].record.status = "processing"
                 ELSE LET last == CHOOSE j \in before : \A k \in before : k <= j
                      IN  /\ storeLog[last].record.status = "processing"
                          /\ storeLog[i].record.status \in {"completed", "failed"}
              /\ id \in DOMAIN background_tasks_store
              /\ (\A j \in WritesOf(id) : j <= i)
                 => background_tasks_store[id] = storeLog[i].record
    /\ \A id \in DOMAIN background_tasks_store : WritesOf(id) # {}

\* A task ran to completion and a later status request was answered with
\* its record.
C20_Witness ==
    /\ req.endpoint = "/tasks"
    /\ resp.status = 200
    /\ resp.body.status = "completed"
    /\ resp.body.progress = 100
    /\ background_tasks_store[req.task_id] = resp.body
    /\ Len(storeLog) = 2

\* The task ids POST /seo/article has answered with so far.
AnsweredTaskIds == 1..nextTask

\* C25: once POST /seo/article has answered with a task id, a GET
\* /tasks/{task_id} for that id is answered with the task's record and never
\* with 404, however the request falls relative to the start of the
\* background task.
C25_AnsweredTaskIsFound ==
    (req.endpoint = "/tasks" /\ req.task_id \in AnsweredTaskIds)
    => /\ resp.status = 200
       /\ resp.body.status \in TaskStatuses

----------------------------------------------------------------------------
(* The content calendar (SpecCalendar).                                    *)

\* plan_content_calendar was called with timeframe_weeks >= 1.
CalendarPlanned ==
    /\ pipeOut.op = "plan_content_calendar"
    /\ pipeOut.timeframe_weeks >= 1

\* The entries of the keyword list whose analysis did not raise.
AnalysedEntries ==
    {i \in 1..Len(pipeOut.keywords) : pipeOut.outcomes[i] # "retriever"}

\* Where the items of a schedule sit: <<position of the week, position in it>>.
Placements(schedule) ==
    {p \in (1..Len(schedule)) \X (1..MaxCalendarItems) :
        p[2] <= Len(schedule[p[1]].items)}

\* The weeks of a schedule that hold an item for the keyword.
WeeksOf(schedule, keyword) ==
    {schedule[p[1]].week : p \in {q \in Placements(schedule) :
        schedule[q[1]].items[q[2]].keyword = keyword}}

\* Every placed item has a target week within the timeframe, and sits in
\* the schedule entry of that week.
TargetWeeksInRange ==
    LET schedule == pipeOut.calendar.schedule
    IN  /\ ~pipeOut.raised
        /\ \A p \in Placements(schedule) :
              LET item == schedule[p[1]].items[p[2]]
              IN  /\ item.target_week \in 1..pipeOut.timeframe_weeks
                  /\ item.target_week = schedule[p[1]].week
        /\ \A v, w \in 1..Len(schedule) :
              schedule[v].week = schedule[w].week => v = w

\* C21 as stated: for timeframe_weeks >= 1 and any keyword list, every item
\* placed by plan_content_calendar has target_week in 1..timeframe_weeks,
\* and each successfully analysed keyword appears in exactly one week of the
\* calendar.
C21_KeywordInOneWeek ==
    CalendarPlanned
    => /\ TargetWeeksInRange
       /\ \A i \in AnalysedEntries :
             Cardinality(WeeksOf(pipeOut.calendar.schedule,
                                 pipeOut.keywords[i])) = 1

\* C21 amended: for timeframe_weeks >= 1 and any keyword list, every item
\* placed by plan_content_calendar has target_week in 1..timeframe_weeks,
\* and each successfully analysed entry of the list is placed exactly once:
\* a keyword has as many items in the calendar as it has analysed entries,
\* and no item is placed for a keyword whose analysis failed every time.
C21_EntryPlacedOnce ==
    CalendarPlanned
    => /\ TargetWeeksInRange
       /\ \A keyword \in CalendarKeywords :
             LET schedule == pipeOut.calendar.schedule
             IN  Cardinality({p \in Placements(schedule) :
                     schedule[p[1]].items[p[2]].keyword = keyword})
                 = Cardinality({i \in AnalysedEntries :
                                   pipeOut.keywords[i] = keyword})

\* Three analysed keywords over two weeks: the third lands in week 2, the
\* last week, next to the second.
C21_Witness ==
    /\ CalendarPlanned
    /\ pipeOut.timeframe_weeks = 2
    /\ Cardinality(AnalysedEntries) = 3
    /\ Len(pipeOut.calendar.schedule) = 2
    /\ Len(pipeOut.calendar.schedule[2].items) = 2
    /\ pipeOut.calendar.schedule[2].week = 2

----------------------------------------------------------------------------
(* ContentCalendar.add_item (SpecAddItem).                                 *)

\* The items added so far with the given target week.
AddedTo(week) ==
    {i \in 1..Len(compOut.added) : compOut.added[i].target_week = week}

\* C22: after any sequence of ContentCalendar.add_item calls, each week's
\* focus_keyword is the keyword of the highest-priority item that has been
\* added to that week.
C22_FocusIsHighestPriority ==
    compOut.op = "ContentCalendar"
    => \A w \in 1..Len(compOut.schedule) :
          \E i \in AddedTo(compOut.schedule[w].week) :
             /\ compOut.added[i].keyword = compOut.schedule[w].focus_keyword
             /\ \A j \in AddedTo(compOut.schedule[w].week) :
                   compOut.added[j].priority_score
                      <= compOut.added[i].priority_score

----------------------------------------------------------------------------
(* The storage manager (SpecStorage).                                      *)

\* The stored item a delete_content call names, if there is one.
NamedItems(fs, content_id, content_type) ==
    {f \in fs : f.id = content_id /\ f.type = content_type}

\* A delete_content call returned in this step.
DeleteReturned ==
    /\ storageOut'.op = "delete_content"
    /\ \/ deleting \ deleting' # {}
       \/ storageOut' # storageOut

\* C24: delete_content(content_id, type, user_id) removes a stored item only
\* when that item's user_id equals the caller's user_id; when the item is
\* owned by another user, does not exist, or the type is unknown, it returns
\* False and leaves every stored file unchanged.
C24_DeleteOnlyOwnContent ==
    [][/\ \A f \in files \ files' :
             /\ storageOut' = StorageOut("delete_content", f.id, f.type,
                                         f.user_id, TRUE)
             /\ files \ files' = {f}
       /\ (storageOut'.op = "delete_content" /\ ~storageOut'.result)
          => files' = files
       /\ \A call \in deleting' \ deleting :
             /\ call.content_type \in ContentTypes
             /\ \E f \in NamedItems(files, call.content_id, call.content_type) :
                   f.user_id = call.user_id
       /\ (DeleteReturned /\ storageOut'.result)
          => \E call \in deleting \ deleting' :
                /\ call.content_id = storageOut'.content_id
                /\ call.content_type = storageOut'.content_type
                /\ call.user_id = storageOut'.user_id]_vars

\* A user asked to delete an item that another user owns: the call returned
\* False and the item is still stored.
C24_Witness ==
    /\ storageOut.op = "delete_content"
    /\ ~storageOut.result
    /\ \E f \in NamedItems(files, storageOut.content_id,
                           storageOut.content_type) :
          f.user_id # storageOut.user_id

----------------------------------------------------------------------------
(* The meta description (SpecMeta).                                        *)

\* C23: for every text the LLM returns, generate_meta_description returns a
\* string of at most META_DESCRIPTION_MAX_LENGTH (155) characters.
C23_MetaDescriptionWithinLimit ==
    (compOut.op = "generate_meta_description" /\ ~compOut.behaviour[2].raises)
    => /\ ~compOut.raised
       /\ Len(compOut.result) <= META_DESCRIPTION_MAX_LENGTH

====
